---- MODULE Spec2Model ----
(***************************************************************************)
(* Model of the response normalization layer of the eero-ui backend       *)
(* (backend/app/transformers.py): the envelope extractors, the success    *)
(* checker and the entity normalizers, as operators over JSON values, and *)
(* a state machine whose actions apply them to inputs drawn from bounded  *)
(* sets.  The route handlers that use the layer (backend/app/routes) are  *)
(* operators from what the vendor client returns to the HTTP answer.      *)
(* Two further specifications share the module: SpecServer, the shared    *)
(* client of deps.py under concurrent requests and shutdown, and          *)
(* SpecMemory, the calls of concurrent requests on one cached raw value.  *)
(*                                                                         *)
(* JSON values are tagged records.  A string is a sequence of one-letter  *)
(* strings so that strip/split/replace/lower and the regular expressions  *)
(* are computed letter by letter.  A mapping is a function from keys to   *)
(* values; an exception that leaves a function is the value Raised(e).    *)
(***************************************************************************)
EXTENDS Integers, Sequences, FiniteSets, TLC

\* ------------------------------------------------------------------ bounds
MaxKeys == 2        \* keys of a generated payload mapping
MaxBatch == 2       \* devices in a generated batch
MaxMembers == 2     \* member devices of a generated profile
MaxRequests == 2    \* requests in flight at once
MaxShutdowns == 1   \* shutdowns of the application

\* ------------------------------------------------------------ JSON values
JNull == [t |-> "null"]
JBool(b) == [t |-> "bool", b |-> b]
JInt(n) == [t |-> "int", i |-> n]
JStr(s) == [t |-> "str", s |-> s]
JList(l) == [t |-> "list", l |-> l]
JDict(d) == [t |-> "dict", d |-> d]
Raised(e) == [t |-> "raise", e |-> e]

JTrue == JBool(TRUE)
JFalse == JBool(FALSE)
EmptyDict == JDict(<<>>)
EmptyList == JList(<<>>)

IsDict(v) == v.t = "dict"
IsList(v) == v.t = "list"
IsStr(v) == v.t = "str"
IsRaised(v) == v.t = "raise"

\* Python truthiness: bool(v)
Truthy(v) ==
    CASE v.t = "null" -> FALSE
      [] v.t = "bool" -> v.b
      [] v.t = "int" -> v.i # 0
      [] v.t = "str" -> v.s # <<>>
      [] v.t = "list" -> v.l # <<>>
      [] v.t = "dict" -> DOMAIN v.d # {}
      [] OTHER -> TRUE

\* Python: a or b
Or(a, b) == IF Truthy(a) THEN a ELSE b

\* Python: k in m   (m a mapping)
Has(m, k) == k \in DOMAIN m.d

\* Python: m.get(k, dflt) and m.get(k)
GetD(m, k, dflt) == IF k \in DOMAIN m.d THEN m.d[k] ELSE dflt
Get(m, k) == GetD(m, k, JNull)

\* ------------------------------------------------------------- extractors
\* extract_data(raw_response); one mutant returns an envelope whole, the
\* other lacks the isinstance guard, so that a non-mapping raises
extract_data_whole(raw_response) ==
    IF raw_response.t = "null" THEN EmptyDict
    ELSE IF ~IsDict(raw_response) THEN EmptyDict
    ELSE IF Has(raw_response, "meta") /\ Has(raw_response, "data")
            /\ ~IsDict(raw_response.d["data"])
    THEN EmptyDict
    ELSE JDict(raw_response.d)
extract_data_noguard(raw_response) ==
    IF raw_response.t = "null" THEN EmptyDict
    ELSE IF ~IsDict(raw_response) THEN Raised("TypeError")
    ELSE IF Has(raw_response, "meta") /\ Has(raw_response, "data")
         THEN LET data == GetD(raw_response, "data", EmptyDict)
              IN IF IsDict(data) THEN JDict(data.d) ELSE EmptyDict
    ELSE JDict(raw_response.d)
extract_data(raw_response) ==
    IF raw_response.t = "null" THEN EmptyDict
    ELSE IF ~IsDict(raw_response) THEN EmptyDict
    ELSE IF Has(raw_response, "meta") /\ Has(raw_response, "data")
         THEN LET data == GetD(raw_response, "data", EmptyDict)
              IN IF IsDict(data) THEN JDict(data.d) ELSE EmptyDict
    ELSE JDict(raw_response.d)

\* the body shared by the list_key branch and the fallback loop of
\* extract_list: a list, or a mapping holding a list under "data", is a hit
ListHit(result) ==
    IF IsList(result) THEN result
    ELSE IF IsDict(result) /\ Has(result, "data") /\ IsList(result.d["data"])
         THEN result.d["data"]
    ELSE JNull

\* the fallback keys of extract_list; the mutant tries "networks" first
FallbackKeys_swapped == <<"networks", "data", "eeros", "devices", "profiles">>
FallbackKeys == <<"data", "networks", "eeros", "devices", "profiles">>

RECURSIVE FallbackScan(_, _)
FallbackScan(data, i) ==
    IF i > Len(FallbackKeys) THEN EmptyList
    ELSE LET key == FallbackKeys[i]
         IN IF Has(data, key) /\ ListHit(data.d[key]) # JNull
            THEN ListHit(data.d[key])
            ELSE FallbackScan(data, i + 1)

\* list_key: str | None.  NoKey is None, Key(k) a supplied key; Python tests
\* "if list_key and list_key in data", so an empty key is never looked up
NoKey == [some |-> FALSE]
Key(k) == [some |-> TRUE, k |-> k]
KeyGiven(list_key) == list_key.some /\ list_key.k # ""

\* extract_list(raw_response, list_key); the mutant searches a mapping
\* without envelope the way it searches the data of an envelope
extract_list_uniform(raw_response, list_key) ==
    IF raw_response.t = "null" THEN EmptyList
    ELSE IF IsList(raw_response) THEN JList(raw_response.l)
    ELSE IF IsDict(raw_response)
    THEN LET data == IF Has(raw_response, "meta") /\ Has(raw_response, "data")
                     THEN Get(raw_response, "data") ELSE raw_response
         IN IF IsList(data) THEN JList(data.l)
            ELSE IF IsDict(data)
            THEN IF KeyGiven(list_key) /\ Has(data, list_key.k)
                    /\ ListHit(data.d[list_key.k]) # JNull
                 THEN ListHit(data.d[list_key.k])
                 ELSE FallbackScan(data, 1)
            ELSE EmptyList
    ELSE EmptyList
extract_list(raw_response, list_key) ==
    IF raw_response.t = "null" THEN EmptyList
    ELSE IF IsList(raw_response) THEN JList(raw_response.l)
    ELSE IF IsDict(raw_response)
    THEN IF Has(raw_response, "meta") /\ Has(raw_response, "data")
         THEN LET data == Get(raw_response, "data")
              IN IF IsList(data) THEN JList(data.l)
                 ELSE IF IsDict(data)
                 THEN IF KeyGiven(list_key) /\ Has(data, list_key.k)
                         /\ ListHit(data.d[list_key.k]) # JNull
                      THEN ListHit(data.d[list_key.k])
                      ELSE FallbackScan(data, 1)
                 ELSE EmptyList
         ELSE IF KeyGiven(list_key) /\ Has(raw_response, list_key.k)
                 /\ IsList(raw_response.d[list_key.k])
              THEN raw_response.d[list_key.k]
              ELSE EmptyList
    ELSE EmptyList

\* check_success(raw_response); Python's == between a JSON value and 200
\* holds for the integer 200 only (True == 1, not 200); the mutant lacks
\* the "if code is not None" default
check_success_strict(raw_response) ==
    IF raw_response.t = "null" THEN FALSE
    ELSE IF raw_response.t = "bool" THEN raw_response.b
    ELSE IF IsDict(raw_response)
    THEN LET meta == GetD(raw_response, "meta", EmptyDict)
         IN IF IsDict(meta) THEN Get(meta, "code") = JInt(200) ELSE TRUE
    ELSE Truthy(raw_response)
\* the mutant ends a mapping without a code in bool(raw_response)
check_success_truthy(raw_response) ==
    IF raw_response.t = "null" THEN FALSE
    ELSE IF raw_response.t = "bool" THEN raw_response.b
    ELSE IF IsDict(raw_response)
    THEN LET meta == GetD(raw_response, "meta", EmptyDict)
         IN IF IsDict(meta) /\ Get(meta, "code") # JNull
            THEN Get(meta, "code") = JInt(200)
            ELSE Truthy(raw_response)
    ELSE Truthy(raw_response)
check_success(raw_response) ==
    IF raw_response.t = "null" THEN FALSE
    ELSE IF raw_response.t = "bool" THEN raw_response.b
    ELSE IF IsDict(raw_response)
    THEN LET meta == GetD(raw_response, "meta", EmptyDict)
         IN IF IsDict(meta)
            THEN LET code == Get(meta, "code")
                 IN IF code # JNull THEN code = JInt(200) ELSE TRUE
            ELSE TRUE
    ELSE Truthy(raw_response)

\* ---------------------------------------------------------------- strings
\* the string literals of the source, letter by letter
sNone == <<"N", "o", "n", "e">>
sTrue == <<"T", "r", "u", "e">>
sFalse == <<"F", "a", "l", "s", "e">>
sUnknown == <<"u", "n", "k", "n", "o", "w", "n">>
sGreen == <<"g", "r", "e", "e", "n">>
sConnected == <<"c", "o", "n", "n", "e", "c", "t", "e", "d">>
sRed == <<"r", "e", "d">>
sDisconnected == <<"d", "i", "s">> \o sConnected
sYellow == <<"y", "e", "l", "l", "o", "w">>
sOnline == <<"o", "n", "l", "i", "n", "e">>
sOffline == <<"o", "f", "f", "l", "i", "n", "e">>
sWarning == <<"w", "a", "r", "n", "i", "n", "g">>
sWireless == <<"w", "i", "r", "e", "l", "e", "s", "s">>
sWired == <<"w", "i", "r", "e", "d">>
s5GHz == <<"5", "G", "H", "z">>
s24GHz == <<"2", ".", "4", "G", "H", "z">>
sDBm == <<" ", "d", "B", "m">>
sMBit == <<" ", "M", "B", "i", "t", "/", "s">>
sEerosRe == <<"/", "e", "e", "r", "o", "s", "/">>
sDevicesRe == <<"/", "d", "e", "v", "i", "c", "e", "s", "/">>

UpperLetters == <<"A", "B", "C", "D", "E", "F", "G", "H", "I", "J", "K", "L", "M",
                  "N", "O", "P", "Q", "R", "S", "T", "U", "V", "W", "X", "Y", "Z">>
LowerLetters == <<"a", "b", "c", "d", "e", "f", "g", "h", "i", "j", "k", "l", "m",
                  "n", "o", "p", "q", "r", "s", "t", "u", "v", "w", "x", "y", "z">>
DigitChars == <<"0", "1", "2", "3", "4", "5", "6", "7", "8", "9">>

\* str.lower()
LowerChar(c) ==
    IF \E i \in 1..26 : UpperLetters[i] = c
    THEN LowerLetters[CHOOSE i \in 1..26 : UpperLetters[i] = c]
    ELSE c
Lower(s) == [i \in 1..Len(s) |-> LowerChar(s[i])]

\* str(n) for an integer n
RECURSIVE NatDigits(_)
NatDigits(n) == IF n < 10 THEN <<DigitChars[n + 1]>>
                ELSE NatDigits(n \div 10) \o <<DigitChars[(n % 10) + 1]>>
IntDigits(n) == IF n < 0 THEN <<"-">> \o NatDigits(0 - n) ELSE NatDigits(n)

\* str(v); the repr of a non-empty list or mapping is not modelled (no input
\* of the model reaches str() with one)
PyStr(v) ==
    CASE v.t = "str" -> v.s
      [] v.t = "null" -> sNone
      [] v.t = "bool" -> IF v.b THEN sTrue ELSE sFalse
      [] v.t = "int" -> IntDigits(v.i)
      [] v.t = "list" /\ v.l = <<>> -> <<"[", "]">>
      [] v.t = "dict" /\ DOMAIN v.d = {} -> <<"{", "}">>

\* s.rstrip("/"): every trailing "/" goes
RECURSIVE RStripSlash(_)
RStripSlash(s) ==
    IF s # <<>> /\ s[Len(s)] = "/" THEN RStripSlash(SubSeq(s, 1, Len(s) - 1))
    ELSE s

\* s.split("/")[-1]: what follows the last "/" (all of s when there is none)
RECURSIVE LastPart(_)
LastPart(s) ==
    IF s = <<>> \/ s[Len(s)] = "/" THEN <<>>
    ELSE LastPart(SubSeq(s, 1, Len(s) - 1)) \o <<s[Len(s)]>>

\* s[i:].startswith(pat), i counted from 1
StartsAt(s, i, pat) ==
    /\ i + Len(pat) - 1 <= Len(s)
    /\ \A j \in 1..Len(pat) : s[i + j - 1] = pat[j]

\* s.replace(pat, ""): leftmost non-overlapping occurrences removed
RECURSIVE RemoveAll(_, _)
RemoveAll(s, pat) ==
    IF s = <<>> THEN <<>>
    ELSE IF StartsAt(s, 1, pat) THEN RemoveAll(SubSeq(s, Len(pat) + 1, Len(s)), pat)
    ELSE <<s[1]>> \o RemoveAll(Tail(s), pat)

\* the longest prefix of s without a "/"
RECURSIVE NoSlashPrefix(_)
NoSlashPrefix(s) ==
    IF s = <<>> \/ s[1] = "/" THEN <<>>
    ELSE <<s[1]>> \o NoSlashPrefix(Tail(s))

\* re.search(lit + "([^/]+)", s): group 1 of the leftmost match, or NoMatch
NoMatch == <<"<", "/", ">">>
SearchGroup(lit, s) ==
    LET hits == {i \in 1..Len(s) : /\ StartsAt(s, i, lit)
                                   /\ i + Len(lit) <= Len(s)
                                   /\ s[i + Len(lit)] # "/"}
    IN IF hits = {} THEN NoMatch
       ELSE LET i == CHOOSE h \in hits : \A g \in hits : h <= g
            IN NoSlashPrefix(SubSeq(s, i + Len(lit), Len(s)))

\* int(s) of Python for the letters of the model: surrounding blanks are
\* stripped, then an optional sign and one or more digits; anything else is
\* a ValueError (ok = FALSE)
RECURSIVE LStripBlank(_)
LStripBlank(s) == IF s # <<>> /\ s[1] = " " THEN LStripBlank(Tail(s)) ELSE s
RECURSIVE RStripBlank(_)
RStripBlank(s) ==
    IF s # <<>> /\ s[Len(s)] = " " THEN RStripBlank(SubSeq(s, 1, Len(s) - 1))
    ELSE s
IsDigit(c) == \E i \in 1..10 : DigitChars[i] = c
DigitVal(c) == (CHOOSE i \in 1..10 : DigitChars[i] = c) - 1
RECURSIVE DigitsVal(_)
DigitsVal(s) == IF s = <<>> THEN 0
                ELSE 10 * DigitsVal(SubSeq(s, 1, Len(s) - 1)) + DigitVal(s[Len(s)])
ParseInt(s) ==
    LET b == RStripBlank(LStripBlank(s))
        signed == b # <<>> /\ b[1] \in {"-", "+"}
        ds == IF signed THEN Tail(b) ELSE b
    IN IF ds # <<>> /\ \A i \in 1..Len(ds) : IsDigit(ds[i])
       THEN [ok |-> TRUE,
             v |-> IF signed /\ b[1] = "-" THEN 0 - DigitsVal(ds) ELSE DigitsVal(ds)]
       ELSE [ok |-> FALSE, v |-> 0]

\* extract_id_from_url(url)
extract_id_from_url(url) ==
    IF ~Truthy(url) THEN JNull
    ELSE JStr(LastPart(RStripSlash(PyStr(url))))

\* get of the status_map of normalize_status, with default; the mutant maps
\* "yellow" to a key of the table
StatusMap_chained(status_str) ==
    CASE status_str = sGreen -> sOnline
      [] status_str = sConnected -> sOnline
      [] status_str = sRed -> sOffline
      [] status_str = sDisconnected -> sOffline
      [] status_str = sYellow -> sRed
      [] OTHER -> status_str
StatusMap(status_str) ==
    CASE status_str = sGreen -> sOnline
      [] status_str = sConnected -> sOnline
      [] status_str = sRed -> sOffline
      [] status_str = sDisconnected -> sOffline
      [] status_str = sYellow -> sWarning
      [] OTHER -> status_str

\* normalize_status(status); the mutant looks the status up without
\* str(status).lower()
normalize_status_cased(status) ==
    IF status.t = "null" THEN JStr(sUnknown)
    ELSE LET st == IF IsDict(status) THEN GetD(status, "status", JStr(sUnknown))
                   ELSE status
         IN JStr(StatusMap(PyStr(st)))
normalize_status(status) ==
    IF status.t = "null" THEN JStr(sUnknown)
    ELSE LET st == IF IsDict(status) THEN GetD(status, "status", JStr(sUnknown))
                   ELSE status
         IN JStr(StatusMap(Lower(PyStr(st))))

\* -------------------------------------------------------------- normalizers
TypeError == Raised("TypeError")

\* normalize_network(raw): raw.get(k) fields, raw.get(k, False) fields
NetworkPlainKeys ==
    {"url", "name", "guest_network_name", "health", "settings", "dhcp", "owner",
     "display_name", "wan_type", "gateway_ip", "connection_mode", "created_at",
     "geo_ip", "dns", "premium_dns", "updates", "ddns", "homekit", "ip_settings",
     "premium_details", "last_reboot"}
NetworkFlagKeys ==
    {"guest_network_enabled", "backup_internet_enabled", "power_saving", "sqm",
     "upnp", "thread", "band_steering", "wpa3", "ipv6_upstream",
     "amazon_account_linked", "alexa_skill"}

NetworkIspName(raw) ==
    LET n1 == Get(raw, "isp_name")
        n2 == IF ~Truthy(n1)
              THEN LET geo_ip == GetD(raw, "geo_ip", EmptyDict)
                   IN IF IsDict(geo_ip) THEN Get(geo_ip, "isp") ELSE n1
              ELSE n1
    IN IF ~Truthy(n2)
       THEN LET isp_data == GetD(raw, "isp", EmptyDict)
            IN IF IsDict(isp_data) THEN Get(isp_data, "name")
               ELSE IF Truthy(isp_data) THEN JStr(PyStr(isp_data))
               ELSE n2
       ELSE n2

NetworkKeys ==
    {"id", "status", "isp_name", "public_ip", "speed_test", "_raw"}
    \cup NetworkPlainKeys \cup NetworkFlagKeys

\* the mutant copies the keys of raw it does not know into the output
normalize_network_open(raw) ==
    JDict([k \in NetworkKeys \cup DOMAIN raw.d |->
        CASE k = "id" -> extract_id_from_url(Get(raw, "url"))
          [] k = "status" -> normalize_status(Get(raw, "status"))
          [] k = "isp_name" -> NetworkIspName(raw)
          [] k = "public_ip" -> Or(Get(raw, "public_ip"), Get(raw, "wan_ip"))
          [] k = "speed_test" -> Or(Get(raw, "speed_test"), Get(raw, "speed"))
          [] k = "_raw" -> raw
          [] k \in NetworkFlagKeys -> GetD(raw, k, JFalse)
          [] OTHER -> Get(raw, k)])

normalize_network(raw) ==
    JDict([k \in NetworkKeys |->
        CASE k = "id" -> extract_id_from_url(Get(raw, "url"))
          [] k = "status" -> normalize_status(Get(raw, "status"))
          [] k = "isp_name" -> NetworkIspName(raw)
          [] k = "public_ip" -> Or(Get(raw, "public_ip"), Get(raw, "wan_ip"))
          [] k = "speed_test" -> Or(Get(raw, "speed_test"), Get(raw, "speed"))
          [] k = "_raw" -> raw
          [] k \in NetworkFlagKeys -> GetD(raw, k, JFalse)
          [] OTHER -> Get(raw, k)])

\* the number Python compares or divides when given an int or a bool
NumVal(v) == IF v.t = "bool" THEN (IF v.b THEN 1 ELSE 0) ELSE v.i
IsNumber(v) == v.t \in {"int", "bool"}

\* f"{rate_bps / 1_000_000:.1f} MBit/s" for an integer rate_bps > 0, rounded
\* to the nearest tenth (the inputs of the model are no exact ties)
FormatMbps(rate_bps) ==
    LET tenths == (rate_bps + 50000) \div 100000
    IN NatDigits(tenths \div 10) \o <<".">> \o NatDigits(tenths % 10) \o sMBit

\* the tx_rate_info / rx_rate_info fallback of normalize_device
RateFromInfo(connectivity, direct_key, info_key) ==
    LET direct == Get(connectivity, direct_key)
        info == GetD(connectivity, info_key, EmptyDict)
        rate_bps == IF IsDict(info) THEN Get(info, "rate_bps") ELSE JNull
    IN IF ~Truthy(direct) /\ IsDict(info) /\ Truthy(rate_bps)
          /\ IsNumber(rate_bps) /\ NumVal(rate_bps) > 0
       THEN JStr(FormatMbps(NumVal(rate_bps)))
       ELSE direct

\* the signal parse of normalize_device; the mutant hands a non-str signal on
DeviceSignal_any(connectivity) ==
    LET signal_str == Get(connectivity, "signal")
    IN IF Truthy(signal_str) /\ ~IsStr(signal_str) THEN signal_str
       ELSE IF Truthy(signal_str) /\ ParseInt(RemoveAll(signal_str.s, sDBm)).ok
       THEN JInt(ParseInt(RemoveAll(signal_str.s, sDBm)).v)
       ELSE JNull
DeviceSignal(connectivity) ==
    LET signal_str == Get(connectivity, "signal")
    IN IF Truthy(signal_str) /\ IsStr(signal_str)
          /\ ParseInt(RemoveAll(signal_str.s, sDBm)).ok
       THEN JInt(ParseInt(RemoveAll(signal_str.s, sDBm)).v)
       ELSE JNull

\* the frequency band of normalize_device; ">" between a str, list or
\* mapping and 4000 is a TypeError; the mutant tests "is not None" where the
\* source tests the truth of frequency_mhz
DeviceFrequency_present(frequency_mhz) ==
    IF frequency_mhz = JNull THEN JNull
    ELSE IF ~IsNumber(frequency_mhz) THEN TypeError
    ELSE IF NumVal(frequency_mhz) > 4000 THEN JStr(s5GHz) ELSE JStr(s24GHz)
DeviceFrequency(frequency_mhz) ==
    IF ~Truthy(frequency_mhz) THEN JNull
    ELSE IF ~IsNumber(frequency_mhz) THEN TypeError
    ELSE IF NumVal(frequency_mhz) > 4000 THEN JStr(s5GHz) ELSE JStr(s24GHz)

\* the re.search over source.url of normalize_device; a non-str is a TypeError
DeviceEeroId(source) ==
    LET source_url == Get(source, "url")
    IN IF ~Truthy(source_url) THEN JNull
       ELSE IF ~IsStr(source_url) THEN TypeError
       ELSE IF SearchGroup(sEerosRe, source_url.s) = NoMatch THEN JNull
       ELSE JStr(SearchGroup(sEerosRe, source_url.s))

\* "display_name": display_name or nickname or hostname; the mutant takes
\* the first candidate that is not None
DeviceDisplayName_present(raw) ==
    IF Get(raw, "display_name") # JNull THEN Get(raw, "display_name")
    ELSE IF Get(raw, "nickname") # JNull THEN Get(raw, "nickname")
    ELSE Get(raw, "hostname")
DeviceDisplayName(raw) ==
    Or(Or(Get(raw, "display_name"), Get(raw, "nickname")), Get(raw, "hostname"))

\* "connection_type": "wireless" if raw.get("wireless") else "wired"; the
\* mutant lets a connection_type of the input through
DeviceConnectionType_supplied(raw) ==
    IF Has(raw, "connection_type") THEN raw.d["connection_type"]
    ELSE IF Truthy(Get(raw, "wireless")) THEN JStr(sWireless) ELSE JStr(sWired)
DeviceConnectionType(raw) ==
    IF Truthy(Get(raw, "wireless")) THEN JStr(sWireless) ELSE JStr(sWired)

DevicePlainKeys ==
    {"url", "mac", "ip", "ipv4", "nickname", "hostname", "manufacturer",
     "model_name", "device_type", "channel", "ssid", "last_active",
     "first_active", "network_id", "subnet_kind", "auth"}
DeviceFlagKeys == {"connected", "wireless", "paused", "is_guest", "is_private"}

DeviceKeys ==
    {"id", "ips", "display_name", "blocked", "connection_type", "signal_strength",
     "signal_bars", "frequency", "frequency_mhz", "rx_bitrate", "tx_bitrate",
     "connected_to_eero", "connected_to_eero_id", "connected_to_eero_model",
     "profile_id", "profile_name", "_raw"}
    \cup DevicePlainKeys \cup DeviceFlagKeys

normalize_device(raw) ==
    LET connectivity == Or(GetD(raw, "connectivity", EmptyDict), EmptyDict)
        hasConn == IsDict(connectivity)
        frequency_mhz == IF hasConn THEN Get(connectivity, "frequency") ELSE JNull
        frequency == IF hasConn THEN DeviceFrequency(frequency_mhz) ELSE JNull
        source == Or(GetD(raw, "source", EmptyDict), EmptyDict)
        hasSrc == IsDict(source)
        eero_id == IF hasSrc THEN DeviceEeroId(source) ELSE JNull
        profile == Or(GetD(raw, "profile", EmptyDict), EmptyDict)
        profile_id == Get(raw, "profile_id")
    IN IF IsRaised(frequency) THEN frequency
       ELSE IF IsRaised(eero_id) THEN eero_id
       ELSE JDict([k \in DeviceKeys |->
        CASE k = "id" -> extract_id_from_url(Get(raw, "url"))
          [] k = "ips" -> GetD(raw, "ips", EmptyList)
          [] k = "display_name" -> DeviceDisplayName(raw)
          [] k = "blocked" -> Or(Get(raw, "blacklisted"), JFalse)
          [] k = "connection_type" -> DeviceConnectionType(raw)
          [] k = "signal_strength" ->
                IF hasConn THEN DeviceSignal(connectivity) ELSE JNull
          [] k = "signal_bars" ->
                IF hasConn THEN Get(connectivity, "score_bars") ELSE JNull
          [] k = "frequency" -> frequency
          [] k = "frequency_mhz" -> frequency_mhz
          [] k = "rx_bitrate" ->
                IF hasConn THEN RateFromInfo(connectivity, "rx_bitrate", "rx_rate_info")
                ELSE JNull
          [] k = "tx_bitrate" ->
                IF hasConn THEN RateFromInfo(connectivity, "tx_bitrate", "tx_rate_info")
                ELSE JNull
          [] k = "connected_to_eero" ->
                IF hasSrc THEN Or(Get(source, "location"), Get(source, "display_name"))
                ELSE JNull
          [] k = "connected_to_eero_id" -> eero_id
          [] k = "connected_to_eero_model" ->
                IF hasSrc THEN Get(source, "model") ELSE JNull
          [] k = "profile_id" ->
                IF IsDict(profile) /\ ~Truthy(profile_id)
                THEN extract_id_from_url(Get(profile, "url"))
                ELSE profile_id
          [] k = "profile_name" ->
                IF IsDict(profile) THEN Get(profile, "name") ELSE JNull
          [] k = "_raw" -> raw
          [] k \in DeviceFlagKeys -> Or(Get(raw, k), JFalse)
          [] OTHER -> Get(raw, k)])

\* normalize_eero(raw)
EeroPlainKeys ==
    {"url", "serial", "mac_address", "model", "model_number", "status", "state",
     "connection_type", "mesh_quality_bars", "ip_address", "using_wan",
     "connected_wired_clients_count", "connected_wireless_clients_count",
     "led_on", "led_brightness", "uptime", "cpu_usage", "memory_usage",
     "temperature", "heartbeat_ok", "update_available", "provides_wifi",
     "auto_provisioned", "retrograde_capable", "last_heartbeat", "last_reboot",
     "joined", "bands", "wifi_bssids", "bssids_with_bands", "ethernet_addresses",
     "ipv6_addresses", "organization", "power_info", "power_saving", "network"}

\* port_info of one entry of ethernet_status.statuses
EeroPortInfo(port) ==
    LET neighbor == GetD(port, "neighbor", EmptyDict)
        metadata == IF IsDict(neighbor) THEN GetD(neighbor, "metadata", EmptyDict)
                    ELSE JNull
    IN IF IsDict(metadata)
       THEN JDict([port_name |-> Get(port, "port_name"),
                   interface_number |-> Get(port, "interfaceNumber"),
                   has_carrier |-> Get(port, "hasCarrier"),
                   speed |-> Get(port, "speed"),
                   is_wan_port |-> Get(port, "isWanPort"),
                   is_lte |-> Get(port, "isLte"),
                   neighbor_location |-> Get(metadata, "location"),
                   neighbor_port |-> Get(metadata, "port_name")])
       ELSE JDict([port_name |-> Get(port, "port_name"),
                   interface_number |-> Get(port, "interfaceNumber"),
                   has_carrier |-> Get(port, "hasCarrier"),
                   speed |-> Get(port, "speed"),
                   is_wan_port |-> Get(port, "isWanPort"),
                   is_lte |-> Get(port, "isLte")])

RECURSIVE EeroPortLoop(_)
EeroPortLoop(statuses) ==
    IF statuses = <<>> THEN <<>>
    ELSE IF IsDict(Head(statuses))
         THEN <<EeroPortInfo(Head(statuses))>> \o EeroPortLoop(Tail(statuses))
         ELSE EeroPortLoop(Tail(statuses))

EeroEthernetPorts(raw) ==
    LET ethernet_status == GetD(raw, "ethernet_status", EmptyDict)
        statuses == IF IsDict(ethernet_status)
                    THEN GetD(ethernet_status, "statuses", EmptyList) ELSE JNull
    IN IF Truthy(statuses) /\ IsList(statuses)
       THEN JList(EeroPortLoop(statuses.l))
       ELSE JNull

EeroLocation(raw) ==
    LET location == Get(raw, "location")
    IN IF IsDict(location) THEN Or(Get(location, "address"), Get(location, "name"))
       ELSE location

EeroKeys ==
    {"id", "location", "is_gateway", "is_primary", "wired",
     "connected_clients_count", "firmware_version", "os_version",
     "ethernet_ports", "_raw"}
    \cup EeroPlainKeys

normalize_eero(raw) ==
    JDict([k \in EeroKeys |->
        CASE k = "id" -> extract_id_from_url(Get(raw, "url"))
          [] k = "location" -> EeroLocation(raw)
          [] k = "is_gateway" ->
                Or(GetD(raw, "gateway", JFalse), GetD(raw, "is_gateway", JFalse))
          [] k = "is_primary" ->
                Or(GetD(raw, "is_primary", JFalse), GetD(raw, "is_primary_node", JFalse))
          [] k = "wired" -> GetD(raw, "wired", JFalse)
          [] k = "connected_clients_count" ->
                GetD(raw, "connected_clients_count", JInt(0))
          [] k = "firmware_version" ->
                Or(Or(Get(raw, "firmware_version"), Get(raw, "os_version")),
                   Get(raw, "os"))
          [] k = "os_version" -> Or(Get(raw, "os_version"), Get(raw, "os"))
          [] k = "ethernet_ports" -> EeroEthernetPorts(raw)
          [] k = "_raw" -> raw
          [] OTHER -> Get(raw, k)])

\* normalize_profile(raw): the id of one member device, by re.search over
\* its url; a non-str url is a TypeError; the mutant asks extract_id_from_url
MemberId_extractor(dev) == extract_id_from_url(GetD(dev, "url", JStr(<<>>)))
MemberId(dev) ==
    LET device_url == GetD(dev, "url", JStr(<<>>))
    IN IF ~Truthy(device_url) THEN JNull
       ELSE IF ~IsStr(device_url) THEN TypeError
       ELSE IF SearchGroup(sDevicesRe, device_url.s) = NoMatch THEN JNull
       ELSE JStr(SearchGroup(sDevicesRe, device_url.s))

\* the entry appended to devices for one member device
MemberEntry(dev) ==
    JDict([id |-> MemberId(dev),
           url |-> GetD(dev, "url", JStr(<<>>)),
           mac |-> Get(dev, "mac"),
           nickname |-> Get(dev, "nickname"),
           hostname |-> Get(dev, "hostname"),
           display_name |-> Or(Or(Get(dev, "display_name"), Get(dev, "nickname")),
                               Get(dev, "hostname")),
           manufacturer |-> Get(dev, "manufacturer"),
           connected |-> GetD(dev, "connected", JFalse),
           wireless |-> GetD(dev, "wireless", JFalse),
           paused |-> GetD(dev, "paused", JFalse)])

\* "if device_id: device_ids.append(device_id)"; the mutant appends always
AppendId_always(device_ids, device_id) == Append(device_ids, device_id)
AppendId(device_ids, device_id) ==
    IF Truthy(device_id) THEN Append(device_ids, device_id) ELSE device_ids

\* the loop over devices_raw: acc.devices and acc.device_ids grow, and a
\* TypeError of re.search leaves the loop (acc.raised)
RECURSIVE ProfileLoop(_, _)
ProfileLoop(devices_raw, acc) ==
    IF devices_raw = <<>> \/ acc.raised THEN acc
    ELSE LET dev == Head(devices_raw)
         IN IF ~IsDict(dev) THEN ProfileLoop(Tail(devices_raw), acc)
            ELSE IF IsRaised(MemberId(dev))
            THEN [acc EXCEPT !.raised = TRUE]
            ELSE ProfileLoop(Tail(devices_raw),
                    [devices |-> Append(acc.devices, MemberEntry(dev)),
                     device_ids |-> AppendId(acc.device_ids, MemberId(dev)),
                     raised |-> FALSE])

\* "device_count": len(devices); the mutant trusts a vendor-supplied count
ProfileDeviceCount_vendor(devices, device_ids, raw) ==
    Or(Get(raw, "device_count"), JInt(Len(devices)))
ProfileDeviceCount(devices, device_ids, raw) == JInt(Len(devices))

ProfileKeys ==
    {"id", "url", "name", "paused", "device_count", "device_ids", "devices", "_raw"}

normalize_profile(raw) ==
    LET d0 == GetD(raw, "devices", EmptyList)
        devices_raw == IF IsDict(d0) THEN GetD(d0, "data", EmptyList) ELSE d0
        acc == ProfileLoop(IF IsList(devices_raw) THEN devices_raw.l ELSE <<>>,
                           [devices |-> <<>>, device_ids |-> <<>>, raised |-> FALSE])
    IN IF acc.raised THEN TypeError
       ELSE JDict([k \in ProfileKeys |->
        CASE k = "id" -> extract_id_from_url(Get(raw, "url"))
          [] k = "url" -> Get(raw, "url")
          [] k = "name" -> Get(raw, "name")
          [] k = "paused" -> GetD(raw, "paused", JFalse)
          [] k = "device_count" ->
                ProfileDeviceCount(acc.devices, acc.device_ids, raw)
          [] k = "device_ids" -> JList(acc.device_ids)
          [] k = "devices" -> JList(acc.devices)
          [] k = "_raw" -> raw])

\* ------------------------------------------------------------------ routes
\* the HTTP response of a route handler: its status code and JSON body (the
\* message and detail texts are left out); an exception that no handler
\* catches is the framework's 500
Http(status, body) == [t |-> "http", status |-> status, body |-> body]
Unhandled(e) == Http(500, Raised(e))
\* what an auth route leaves: its response and whether the exporter session
\* file exists
Answer(resp, exporter) == [t |-> "answer", resp |-> resp, exporter |-> exporter]
AuthError == Raised("EeroAuthenticationException")
NetworkError == Raised("EeroNetworkException")

\* routes/auth.py login(): result is what "await client.login(...)" returned
\* or raised
login(result) ==
    IF result = AuthError THEN Http(401, JNull)
    ELSE IF result = NetworkError THEN Http(503, JNull)
    ELSE IF IsRaised(result) THEN Unhandled(result.e)
    ELSE IF Truthy(result) THEN Http(200, JDict([success |-> JTrue]))
    ELSE Http(200, JDict([success |-> JFalse]))

\* _sync_session_to_exporter(): the exporter session file exists afterwards
\* when the main session file is there and the copy works (io_ok); every
\* exception is swallowed
SyncSessionToExporter(session, exporter, io_ok) ==
    IF session /\ io_ok THEN TRUE ELSE exporter

\* _clear_exporter_session(): unlink if the file exists; every exception is
\* swallowed
ClearExporterSession(exporter, io_ok) ==
    IF exporter /\ io_ok THEN FALSE ELSE exporter

\* routes/auth.py verify(): the response and whether the exporter session
\* file exists afterwards
verify(result, preferred_network_id, session, exporter, io_ok) ==
    IF result = AuthError THEN Answer(Http(401, JNull), exporter)
    ELSE IF result = NetworkError THEN Answer(Http(503, JNull), exporter)
    ELSE IF IsRaised(result) THEN Answer(Unhandled(result.e), exporter)
    ELSE IF Truthy(result)
    THEN Answer(Http(200, JDict([success |-> JTrue,
                                 preferred_network_id |-> preferred_network_id])),
                SyncSessionToExporter(session, exporter, io_ok))
    ELSE Answer(Http(200, JDict([success |-> JFalse,
                                 preferred_network_id |-> JNull])),
                exporter)

\* routes/auth.py logout(): "success" is what client.logout() returned; an
\* exception of any kind is answered with success true after a second
\* clearing
logout(result, exporter, io_ok) ==
    LET cleared == ClearExporterSession(exporter, io_ok)
    IN IF IsRaised(result)
       THEN Answer(Http(200, JDict([success |-> JTrue])),
                   ClearExporterSession(cleared, io_ok))
       ELSE Answer(Http(200, JDict([success |-> result])), cleared)

\* an object of the vendor client's models: attribute access on anything
\* else is an AttributeError
JObj(d) == [t |-> "obj", d |-> d]
IsObj(v) == v.t = "obj"
HasAttr(v, a) == IsObj(v) /\ a \in DOMAIN v.d
Attr(v, a) == v.d[a]
AttributeError == Raised("AttributeError")
ValidationError == Raised("ValidationError")
\* datetime.isoformat() is the text iso
JDateTime(iso) == [t |-> "datetime", iso |-> iso]

\* pydantic: does v fit a field declared str, str | None, int, int | None,
\* bool, or a list (no input of the model relies on a coercion)
Conforms(v, ty) ==
    CASE ty = "str" -> IsStr(v)
      [] ty = "str?" -> IsStr(v) \/ v = JNull
      [] ty = "int" -> v.t = "int"
      [] ty = "int?" -> v.t = "int" \/ v = JNull
      [] ty = "bool" -> v.t = "bool"
      [] ty = "bool?" -> v.t = "bool" \/ v = JNull
      [] ty = "list" -> IsList(v)

\* Model(**fields): the response object, or pydantic's ValidationError
Construct(fields, types) ==
    IF \A k \in DOMAIN fields : Conforms(fields[k], types[k])
    THEN JDict(fields)
    ELSE ValidationError

\* "for item in items: result.append(..)" without a try inside: the first
\* exception leaves the loop and the handler
RECURSIVE AppendAll(_, _)
AppendAll(results, acc) ==
    IF results = <<>> THEN JList(acc)
    ELSE IF IsRaised(Head(results)) THEN Head(results)
    ELSE AppendAll(Tail(results), Append(acc, Head(results)))

\* the same loop with "try: .. except Exception:" around its body and
\* "continue" for an item that a filter rejects
Filtered == [t |-> "filtered"]
Kept(result) == ~IsRaised(result) /\ result # Filtered
AppendKept(results) == JList(SelectSeq(results, Kept))

\* "except EeroException" of the list routes: HTTP 500 with a detail; any
\* other exception is the framework's 500
EeroExceptions == {"EeroException", "EeroAuthenticationException",
                   "EeroNetworkException", "EeroAPIException"}
RouteFailure(raised) ==
    IF raised.e \in EeroExceptions THEN Http(500, JNull) ELSE Unhandled(raised.e)

\* routes/eeros.py list_eeros(): one EeroSummary
EeroSummaryTypes ==
    [id |-> "str", url |-> "str", serial |-> "str", mac_address |-> "str",
     model |-> "str", status |-> "str", location |-> "str?",
     is_gateway |-> "bool", is_primary |-> "bool",
     connected_clients_count |-> "int", firmware_version |-> "str?",
     ip_address |-> "str?", mesh_quality_bars |-> "int?", led_on |-> "bool?",
     wired |-> "bool"]
EeroSummary(raw_eero) ==
    IF ~IsDict(raw_eero) THEN AttributeError
    ELSE LET eero == normalize_eero(raw_eero)
             blank == JStr(<<>>)
         IN Construct(
              [id |-> Or(Or(Get(eero, "id"), Get(eero, "serial")), blank),
               url |-> Or(Get(eero, "url"), blank),
               serial |-> Or(Get(eero, "serial"), blank),
               mac_address |-> Or(Get(eero, "mac_address"), blank),
               model |-> Or(Get(eero, "model"), blank),
               status |-> Or(Get(eero, "status"), JStr(sUnknown)),
               location |-> Get(eero, "location"),
               is_gateway |-> GetD(eero, "is_gateway", JFalse),
               is_primary |-> GetD(eero, "is_primary", JFalse),
               connected_clients_count |-> GetD(eero, "connected_clients_count", JInt(0)),
               firmware_version |-> Get(eero, "firmware_version"),
               ip_address |-> Get(eero, "ip_address"),
               mesh_quality_bars |-> Get(eero, "mesh_quality_bars"),
               led_on |-> Get(eero, "led_on"),
               wired |-> GetD(eero, "wired", JFalse)],
              EeroSummaryTypes)

list_eeros(result) ==
    IF IsRaised(result) THEN RouteFailure(result)
    ELSE LET raw_eeros == extract_list(result, Key("eeros")).l
             body == AppendAll([i \in 1..Len(raw_eeros) |-> EeroSummary(raw_eeros[i])],
                               <<>>)
         IN IF IsRaised(body) THEN RouteFailure(body) ELSE Http(200, body)

\* routes/networks.py list_networks(): one NetworkSummary
NetworkSummaryTypes ==
    [id |-> "str", name |-> "str", status |-> "str",
     guest_network_enabled |-> "bool", public_ip |-> "str?", isp_name |-> "str?"]
NetworkSummary(raw_net) ==
    IF ~IsDict(raw_net) THEN AttributeError
    ELSE LET net == normalize_network(raw_net)
         IN Construct(
              [id |-> Or(Get(net, "id"), JStr(<<>>)),
               name |-> Or(Get(net, "name"), JStr(<<>>)),
               status |-> Or(Get(net, "status"), JStr(sUnknown)),
               guest_network_enabled |-> GetD(net, "guest_network_enabled", JFalse),
               public_ip |-> Get(net, "public_ip"),
               isp_name |-> Get(net, "isp_name")],
              NetworkSummaryTypes)
list_networks(result) ==
    IF IsRaised(result) THEN RouteFailure(result)
    ELSE LET networks == extract_list(result, Key("networks")).l
             body == AppendAll([i \in 1..Len(networks) |-> NetworkSummary(networks[i])],
                               <<>>)
         IN IF IsRaised(body) THEN RouteFailure(body) ELSE Http(200, body)

\* device_ids.split(","): the set of the parts
RECURSIVE NoCommaPrefix(_)
NoCommaPrefix(s) ==
    IF s = <<>> \/ s[1] = "," THEN <<>>
    ELSE <<s[1]>> \o NoCommaPrefix(Tail(s))
RECURSIVE SplitComma(_)
SplitComma(s) ==
    LET part == NoCommaPrefix(s)
    IN IF Len(part) = Len(s) THEN {part}
       ELSE {part} \cup SplitComma(SubSeq(s, Len(part) + 2, Len(s)))

\* routes/devices.py list_devices(): the body of the loop for one device,
\* a DeviceSummary, Filtered for "continue", or the exception it raises
DeviceSummaryTypes ==
    [id |-> "str?", url |-> "str?", mac |-> "str?", ip |-> "str?",
     nickname |-> "str?", hostname |-> "str?", display_name |-> "str?",
     manufacturer |-> "str?", model_name |-> "str?", device_type |-> "str?",
     connected |-> "bool", wireless |-> "bool", blocked |-> "bool",
     paused |-> "bool", is_guest |-> "bool", connection_type |-> "str?",
     signal_strength |-> "int?", frequency |-> "str?",
     connected_to_eero |-> "str?", last_active |-> "str?",
     profile_id |-> "str?", profile_name |-> "str?"]
RouteSignal(signal) ==
    IF ~Truthy(signal) \/ ~IsStr(signal) THEN JNull
    ELSE IF ParseInt(RemoveAll(signal.s, sDBm)).ok
    THEN JInt(ParseInt(RemoveAll(signal.s, sDBm)).v)
    ELSE JNull
RouteFrequency(frequency) ==
    IF ~Truthy(frequency) THEN JNull
    ELSE IF ~IsNumber(frequency) THEN TypeError
    ELSE IF NumVal(frequency) > 4000 THEN JStr(<<"5", "G", "H", "z">>)
    ELSE JStr(<<"2", ".", "4", "G", "H", "z">>)
IdFilterPasses(device, device_ids) ==
    \/ ~Truthy(device_ids)
    \/ LET device_id_filter == SplitComma(device_ids.s)
           dev_id == Attr(device, "id")
           mac == Attr(device, "mac")
       IN \/ IsStr(dev_id) /\ dev_id.s \in device_id_filter
          \/ /\ Truthy(mac)
             /\ Lower(RemoveAll(mac.s, <<":">>)) # <<>>
             /\ Lower(RemoveAll(mac.s, <<":">>)) \in device_id_filter
DeviceSummary(device, connected_only, profile_id, device_ids) ==
    IF ~IsObj(device) THEN AttributeError
    ELSE IF connected_only /\ ~Truthy(Attr(device, "connected")) THEN Filtered
    ELSE IF Truthy(profile_id) /\ Attr(device, "profile_id") # profile_id THEN Filtered
    ELSE IF Truthy(device_ids) /\ Truthy(Attr(device, "mac")) /\ ~IsStr(Attr(device, "mac"))
    THEN AttributeError
    ELSE IF ~IdFilterPasses(device, device_ids) THEN Filtered
    ELSE LET connectivity == Attr(device, "connectivity")
             source == Attr(device, "source")
             profile == Attr(device, "profile")
             last_active == Attr(device, "last_active")
             frequency == IF Truthy(connectivity)
                          THEN RouteFrequency(Attr(connectivity, "frequency"))
                          ELSE JNull
         IN IF Truthy(connectivity) /\ ~IsObj(connectivity) THEN AttributeError
            ELSE IF IsRaised(frequency) THEN frequency
            ELSE IF Truthy(source) /\ ~IsObj(source) THEN AttributeError
            ELSE IF Truthy(profile) /\ ~IsObj(profile) THEN AttributeError
            ELSE IF Truthy(last_active) /\ last_active.t # "datetime" THEN AttributeError
            ELSE Construct(
                   [id |-> Attr(device, "id"),
                    url |-> Attr(device, "url"),
                    mac |-> Attr(device, "mac"),
                    ip |-> Attr(device, "ip"),
                    nickname |-> Attr(device, "nickname"),
                    hostname |-> Attr(device, "hostname"),
                    display_name |-> Or(Or(Attr(device, "display_name"),
                                           Attr(device, "nickname")),
                                        Attr(device, "hostname")),
                    manufacturer |-> Attr(device, "manufacturer"),
                    model_name |-> Attr(device, "model_name"),
                    device_type |-> Attr(device, "device_type"),
                    connected |-> Or(Attr(device, "connected"), JFalse),
                    wireless |-> Or(Attr(device, "wireless"), JFalse),
                    blocked |-> Or(Attr(device, "blacklisted"), JFalse),
                    paused |-> Or(Attr(device, "paused"), JFalse),
                    is_guest |-> Or(Attr(device, "is_guest"), JFalse),
                    connection_type |-> IF Truthy(Attr(device, "wireless"))
                                        THEN JStr(sWireless) ELSE JStr(sWired),
                    signal_strength |-> IF Truthy(connectivity)
                                        THEN RouteSignal(Attr(connectivity, "signal"))
                                        ELSE JNull,
                    frequency |-> frequency,
                    connected_to_eero |-> IF Truthy(source)
                                          THEN Or(Attr(source, "location"),
                                                  Attr(source, "display_name"))
                                          ELSE JNull,
                    last_active |-> IF Truthy(last_active)
                                    THEN JStr(last_active.iso) ELSE JNull,
                    profile_id |-> Attr(device, "profile_id"),
                    profile_name |-> IF Truthy(profile)
                                     THEN Attr(profile, "name") ELSE JNull],
                   DeviceSummaryTypes)

list_devices(result, connected_only, profile_id, device_ids) ==
    IF IsRaised(result) THEN RouteFailure(result)
    ELSE LET devices == result.l
         IN Http(200, AppendKept([i \in 1..Len(devices) |->
                                     DeviceSummary(devices[i], connected_only,
                                                   profile_id, device_ids)]))

\* routes/profiles.py: one ProfileDevice of a member that is a mapping or an
\* object with a url attribute (getattr with a default reads like get)
ProfileDeviceTypes ==
    [id |-> "str?", url |-> "str?", mac |-> "str?", nickname |-> "str?",
     hostname |-> "str?", display_name |-> "str?", manufacturer |-> "str?",
     connected |-> "bool", wireless |-> "bool", paused |-> "bool"]
IsMember(device) == IsDict(device) \/ HasAttr(device, "url")
ProfileDevice(device) ==
    IF IsRaised(MemberId(device)) THEN MemberId(device)
    ELSE Construct(MemberEntry(device).d, ProfileDeviceTypes)

\* the ids appended to device_ids, in the order of the members
RECURSIVE RouteDeviceIds(_)
RouteDeviceIds(members) ==
    IF members = <<>> THEN <<>>
    ELSE IF Truthy(MemberId(Head(members))) /\ ~IsRaised(MemberId(Head(members)))
    THEN <<MemberId(Head(members))>> \o RouteDeviceIds(Tail(members))
    ELSE RouteDeviceIds(Tail(members))

\* the ProfileSummary built for one profile object by list_profiles() and
\* by get_profile()
ProfileSummaryTypes ==
    [id |-> "str?", url |-> "str?", name |-> "str", paused |-> "bool",
     device_count |-> "int", device_ids |-> "list", devices |-> "list"]
DevicesList(profile) ==
    IF HasAttr(profile, "devices") /\ Truthy(Attr(profile, "devices"))
    THEN Attr(profile, "devices").l
    ELSE <<>>
ProfileSummary(profile) ==
    IF ~IsObj(profile) THEN AttributeError
    ELSE LET url == Attr(profile, "url")
             devices_list == DevicesList(profile)
             members == SelectSeq(devices_list, IsMember)
             profile_devices ==
                 AppendAll([i \in 1..Len(members) |-> ProfileDevice(members[i])], <<>>)
         IN IF Truthy(url) /\ ~IsStr(url) THEN AttributeError
            ELSE IF IsRaised(profile_devices) THEN profile_devices
            ELSE Construct(
                   [id |-> IF Truthy(url) THEN JStr(LastPart(url.s)) ELSE JNull,
                    url |-> url,
                    name |-> Attr(profile, "name"),
                    paused |-> Attr(profile, "paused"),
                    device_count |-> JInt(Len(devices_list)),
                    device_ids |-> JList(RouteDeviceIds(members)),
                    devices |-> profile_devices],
                   ProfileSummaryTypes)

\* routes/profiles.py list_profiles()
list_profiles(result) ==
    IF IsRaised(result) THEN RouteFailure(result)
    ELSE LET profiles == result.l
             body == AppendAll([i \in 1..Len(profiles) |-> ProfileSummary(profiles[i])],
                               <<>>)
         IN IF IsRaised(body) THEN RouteFailure(body) ELSE Http(200, body)

\* routes/profiles.py get_profile(): an EeroException is HTTP 404
get_profile(result) ==
    IF IsRaised(result)
    THEN (IF result.e \in EeroExceptions THEN Http(404, JNull) ELSE Unhandled(result.e))
    ELSE IF IsRaised(ProfileSummary(result))
    THEN (IF ProfileSummary(result).e \in EeroExceptions THEN Http(404, JNull)
          ELSE Unhandled(ProfileSummary(result).e))
    ELSE Http(200, ProfileSummary(result))

\* ------------------------------------------------------------------ inputs
\* a field that a generated mapping does not have
Absent == [t |-> "absent"]
Mk(f) == JDict([k \in {x \in DOMAIN f : f[x] # Absent} |-> f[k]])
SeqsUpTo(S, n) == UNION {[1..k -> S] : k \in 0..n}

sA == <<"a">>
sB == <<"b">>
E1 == JDict([name |-> JStr(sA)])
E2 == JDict([name |-> JStr(sB)])
LA == JList(<<E1>>)
LB == JList(<<E2, E1>>)
LC == JList(<<E2>>)
Scalars == {JNull, JTrue, JFalse, JInt(0), JInt(200), JStr(<<>>), JStr(sA)}
Lists == {EmptyList, LA, LB}

\* payload mappings: up to MaxKeys of the list-holding keys, each holding a
\* scalar, a list, or a nested mapping with a "data" of its own
PayloadKeys == {"items", "data", "networks", "eeros", "devices", "profiles", "other"}
PayloadVals == {JInt(1), LA, LB, JDict([data |-> LC]), JDict([data |-> JInt(1)])}
Payloads ==
    {JDict(f) : f \in UNION {[K -> PayloadVals] :
                    K \in {X \in SUBSET PayloadKeys : Cardinality(X) <= MaxKeys}}}
Metas == {JDict([code |-> JInt(200)]), JNull}
Envelopes ==
    {JDict([meta |-> m, data |-> x]) :
        m \in Metas, x \in Scalars \cup Lists \cup Payloads}
    \cup {JDict([meta |-> m, data |-> x, networks |-> LA]) :
             m \in Metas, x \in {JInt(1), LB, EmptyDict}}
NonEnvelopes ==
    Payloads \cup {JDict([k \in DOMAIN p.d \cup {"meta"} |->
                                IF k = "meta" THEN JDict([code |-> JInt(200)])
                                ELSE p.d[k]]) :
                      p \in {q \in Payloads : ~Has(q, "data")}}
ExtractInputs == Scalars \cup Lists \cup Envelopes \cup NonEnvelopes
ListKeys == {NoKey, Key("items"), Key("networks")}

\* inputs of check_success
sTwoHundred == <<"2", "0", "0">>
Codes == {JNull, JInt(200), JInt(0), JInt(201), JInt(404), JTrue, JFalse,
          JStr(sTwoHundred), EmptyList, EmptyDict, JList(<<JInt(200)>>)}
SuccessMetas ==
    {Absent, JNull, JInt(200), JStr(sA), EmptyList, EmptyDict, JDict([msg |-> JStr(sA)])}
    \cup {JDict([code |-> c]) : c \in Codes}
    \cup {JDict([code |-> c, msg |-> JStr(sA)]) : c \in Codes}
SuccessInputs ==
    Scalars \cup Lists
    \cup {Mk([meta |-> m, data |-> x]) : m \in SuccessMetas, x \in {Absent, EmptyDict, LA}}

\* urls
uDev1 == <<"/", "d", "e", "v", "i", "c", "e", "s", "/", "d", "1">>
uDev2 == <<"/", "d", "e", "v", "i", "c", "e", "s", "/", "d", "2", "/">>
uDevDeep == <<"/", "2", ".", "2", "/", "n", "e", "t", "w", "o", "r", "k", "s", "/", "n", "1", "/", "d", "e", "v", "i", "c", "e", "s", "/", "d", "1", "/">>
uDevMore == <<"/", "d", "e", "v", "i", "c", "e", "s", "/", "d", "1", "/", "x">>
uOther == <<"/", "x", "/", "y">>
uEero == <<"/", "2", ".", "2", "/", "e", "e", "r", "o", "s", "/", "e", "1">>
uProfile == <<"/", "2", ".", "2", "/", "p", "r", "o", "f", "i", "l", "e", "s", "/", "p", "1">>
uNet == <<"/", "2", ".", "2", "/", "n", "e", "t", "w", "o", "r", "k", "s", "/", "n", "1">>
uSlash == <<"/">>
uSlashes == <<"/", "/">>
uTwoTrail == <<"d", "1", "/", "/">>
uInner == <<"d", "1", "/", "/", "d", "2">>

\* inputs of extract_id_from_url
UrlInputs ==
    {JNull, JStr(<<>>), JInt(0), JInt(7), JFalse, JTrue}
    \cup {JStr(u) : u \in {uDev1, uDev2, uDevDeep, uDevMore, uOther, uEero,
                           uProfile, uNet, uSlash, uSlashes, uTwoTrail, uInner,
                           sA}}

\* signal and frequency values of a connectivity mapping
sigGood == <<"-", "4", "5", " ", "d", "B", "m">>
sigBare == <<"-", "4", "5">>
sigPlus == <<"+", "5", " ", "d", "B", "m">>
sigWord == <<"l", "o", "w", " ", "d", "B", "m">>
sigNoBlank == <<"-", "4", "5", "d", "B", "m">>
sFreq == <<"5", "2", "0", "0">>
SignalVals == {Absent, JNull, JInt(0 - 45), JTrue, JList(<<JInt(1)>>), JStr(<<>>),
               JStr(sigGood), JStr(sigBare), JStr(sigPlus), JStr(sigWord),
               JStr(sigNoBlank)}
GoodFrequencies == {Absent, JNull, JInt(0), JInt(0 - 1), JInt(2412), JInt(4000),
                    JInt(4001), JInt(5200), JTrue}
BadFrequencies == {JStr(sFreq), JList(<<JInt(5200)>>), JDict([mhz |-> JInt(5200)])}

\* raw devices: one group of fields varies at a time
RateInfos == {Absent, JNull, JInt(5), EmptyDict, JDict([rate_bps |-> JInt(0)]),
              JDict([rate_bps |-> JInt(866700000)]), JDict([rate_bps |-> JTrue]),
              JDict([rate_bps |-> JStr(sFreq)])}
sRate == <<"8", "6", "6", ".", "7", " ", "M", "B", "i", "t", "/", "s">>
RawDevices ==
    {Mk([url |-> JStr(uDev1),
         connectivity |-> Mk([signal |-> sg, frequency |-> f, score_bars |-> JInt(4)])]) :
        sg \in SignalVals, f \in GoodFrequencies \cup BadFrequencies}
    \cup {Mk([connectivity |-> c]) :
             c \in {Absent, JNull, JInt(5), JStr(sA), EmptyList, LA, EmptyDict}}
    \cup {Mk([connectivity |-> Mk([tx_bitrate |-> b, tx_rate_info |-> i,
                                   rx_rate_info |-> i])]) :
             b \in {Absent, JStr(sRate)}, i \in RateInfos}
    \cup {Mk([wireless |-> w, blacklisted |-> b, connection_type |-> c]) :
             w \in {Absent, JNull, JTrue, JFalse, JInt(1)},
             b \in {Absent, JNull, JTrue, JFalse},
             c \in {Absent, JStr(sWired), JStr(sWireless)}}
    \cup {Mk([display_name |-> d, nickname |-> n, hostname |-> h]) :
             d \in {Absent, JNull, JStr(<<>>), JStr(sA)},
             n \in {Absent, JNull, JStr(<<>>), JStr(sB)},
             h \in {Absent, JNull, JStr(<<>>), JStr(sUnknown)}}
    \cup {Mk([source |-> x]) : x \in {JNull, JInt(5), LA, EmptyDict}}
    \cup {Mk([source |-> Mk([location |-> l, display_name |-> JStr(sB), url |-> u])]) :
             l \in {Absent, JStr(sA)},
             u \in {Absent, JNull, JStr(uEero), JStr(uOther), JInt(5), LA}}
    \cup {Mk([profile |-> x, profile_id |-> i]) :
             x \in {Absent, JNull, JInt(5), JDict([name |-> JStr(sA)]),
                    JDict([name |-> JStr(sA), url |-> JStr(uProfile)])},
             i \in {Absent, JNull, JStr(sB)}}
    \cup {Mk([url |-> u, ips |-> i]) :
             u \in {Absent, JNull, JStr(<<>>), JStr(uDev2), JStr(uSlash), JInt(7), JTrue},
             i \in {Absent, JNull, LA}}
    \cup {Mk([mystery |-> JInt(1), nickname |-> n]) : n \in {Absent, JStr(sA)}}

\* raw devices of a batch: well-formed but for connectivity.signal
BatchDevices ==
    {Mk([url |-> JStr(u),
         connectivity |-> Mk([signal |-> sg, frequency |-> JInt(5200)])]) :
        u \in {uDev1}, sg \in SignalVals}

\* raw networks
sUpGreen == <<"G", "R", "E", "E", "N">>
sMixed == <<"C", "o", "n", "n", "e", "c", "t", "e", "d">>
StatusVals == {Absent, JNull, JInt(1), JStr(sGreen), JStr(sUpGreen), JStr(sMixed),
               JStr(sRed), JStr(sDisconnected), JStr(sYellow), JStr(sOnline),
               JStr(sA), EmptyDict, JDict([status |-> JStr(sConnected)]),
               JDict([status |-> JNull]), JDict([status |-> JStr(sUpGreen)])}
\* inputs of normalize_status
sUpYellow == <<"Y", "E", "L", "L", "O", "W">>
sMixedRed == <<"R", "e", "d">>
sDegraded == <<"D", "e", "g", "r", "a", "d", "e", "d">>
StatusStrings ==
    {<<>>, sA, sGreen, sUpGreen, sConnected, sMixed, sRed, sMixedRed,
     sDisconnected, sYellow, sUpYellow, sOnline, sOffline, sWarning, sUnknown,
     sNone, sDegraded}
StatusInputs ==
    {JNull, JInt(1), JTrue, EmptyDict, JDict([state |-> JStr(sGreen)])}
    \cup {JStr(x) : x \in StatusStrings}
    \cup {JDict([status |-> x]) :
             x \in {JNull, JInt(1), JFalse} \cup {JStr(y) : y \in StatusStrings}}
    \cup {JDict([status |-> JStr(x), message |-> JStr(sA)]) :
             x \in {sRed, sUpYellow}}

RawNetworks ==
    {Mk([url |-> u, status |-> st]) :
        u \in {Absent, JStr(uNet)}, st \in StatusVals}
    \cup {Mk([isp_name |-> n, geo_ip |-> g, isp |-> i]) :
             n \in {Absent, JNull, JStr(<<>>), JStr(sA)},
             g \in {Absent, JNull, JInt(5), JDict([isp |-> JStr(sB)]), EmptyDict},
             i \in {Absent, JNull, JStr(sUnknown), JDict([name |-> JStr(sRed)]),
                    JDict([name |-> JStr(<<>>)])}}
    \cup {Mk([public_ip |-> a, wan_ip |-> b, guest_network_enabled |-> g]) :
             a \in {Absent, JNull, JStr(<<>>), JStr(sA)},
             b \in {Absent, JNull, JStr(<<>>), JStr(sB)},
             g \in {Absent, JNull, JTrue}}
    \cup {Mk([speed_test |-> a, speed |-> b, mystery |-> JInt(1)]) :
             a \in {Absent, EmptyDict, JDict([up |-> JInt(1)])},
             b \in {Absent, JDict([down |-> JInt(2)])}}

\* raw eeros
Flags == {Absent, JNull, JTrue, JFalse}
Ports == {JInt(1),
          JDict([port_name |-> JStr(sA), hasCarrier |-> JTrue]),
          JDict([port_name |-> JStr(sB), neighbor |-> JNull]),
          JDict([neighbor |-> JDict([metadata |-> JDict([location |-> JStr(sA)])])])}
RawEeros ==
    {Mk([url |-> JStr(uEero), gateway |-> a, is_gateway |-> b,
         is_primary |-> c, is_primary_node |-> d]) :
        a \in Flags, b \in Flags, c \in Flags, d \in Flags}
    \cup {Mk([firmware_version |-> a, os_version |-> b, os |-> c]) :
             a \in {Absent, JNull, JStr(<<>>), JStr(sA)},
             b \in {Absent, JNull, JStr(<<>>), JStr(sB)},
             c \in {Absent, JNull, JStr(<<>>), JStr(sRed)}}
    \cup {Mk([location |-> l, status |-> st, mystery |-> JInt(1)]) :
             l \in {Absent, JNull, JStr(sA), JDict([address |-> JStr(sB)]),
                    JDict([name |-> JStr(sA)]), EmptyDict},
             st \in {Absent, JStr(sGreen)}}
    \cup {Mk([ethernet_status |-> e]) :
             e \in {Absent, JNull, JInt(5), LA, EmptyDict,
                    JDict([statuses |-> JNull]), JDict([statuses |-> JInt(5)])}}
    \cup {JDict([ethernet_status |-> JDict([statuses |-> JList(ps)])]) :
             ps \in SeqsUpTo(Ports, 2)}

\* raw profiles: up to MaxMembers member devices, listed directly or under a
\* nested "data", with or without a vendor-supplied count
Members ==
    {Mk([url |-> u, nickname |-> JStr(sA)]) :
        u \in {Absent, JNull, JStr(<<>>), JStr(uDev1), JStr(uDev2), JStr(uDevDeep),
               JStr(uDevMore), JStr(uOther), JInt(5)}}
    \cup {JInt(1)}
MemberLists == {JList(l) : l \in SeqsUpTo(Members, MaxMembers)}
RawProfiles ==
    {Mk([url |-> JStr(uProfile), devices |-> d, device_count |-> c]) :
        d \in MemberLists, c \in {Absent, JInt(7)}}
    \cup {Mk([devices |-> JDict([data |-> d, count |-> JInt(7)]), paused |-> JTrue]) :
             d \in MemberLists}
    \cup {Mk([name |-> JStr(sA), devices |-> d]) :
             d \in {Absent, JNull, JInt(5), JStr(sA), EmptyDict,
                    JDict([data |-> JNull]), JDict([count |-> JInt(7)])}}
    \cup {EmptyDict, JDict([mystery |-> JInt(1)])}

\* what a call on the vendor client gives a route: a raw response envelope
\* (every method of the client returns one) or an exception
RawResponse(data, code) == JDict([meta |-> JDict([code |-> JInt(code)]), data |-> data])
ClientResults ==
    {RawResponse(EmptyDict, c) : c \in {200, 400, 401}}
    \cup {AuthError, NetworkError, Raised("Exception")}
sNet1 == <<"n", "1">>
AuthCalls ==
    {[t |-> "call", result |-> r, preferred_network_id |-> n, session |-> se,
      exporter |-> ex, io_ok |-> io] :
        r \in ClientResults, n \in {JNull, JStr(sNet1)},
        se \in BOOLEAN, ex \in BOOLEAN, io \in BOOLEAN}

\* what the vendor client hands to the list routes: a failure of the call,
\* or up to MaxBatch items, some of which the handler cannot process
CallFailures == {Raised("EeroAPIException"), Raised("Exception")}
sSigned == <<"-", "4", "5", " ", "d", "B", "m">>
sDev1 == <<"d", "1">>
sDev2 == <<"d", "2">>
sMac == <<"A", ":", "b">>
sMacKey == <<"a", "b">>
sProf1 == <<"p", "1">>
RouteEeroItems ==
    {Mk([url |-> JStr(uEero), is_gateway |-> JTrue, status |-> JStr(sGreen)]),
     Mk([serial |-> JStr(sA), connected_clients_count |-> JInt(3)]),
     Mk([url |-> JStr(uEero), is_gateway |-> JNull]),
     Mk([serial |-> JStr(sB), connected_clients_count |-> JNull]),
     JInt(5)}
EeroResults ==
    {RawResponse(JList(l), 200) : l \in SeqsUpTo(RouteEeroItems, MaxBatch)}
    \cup {RawResponse(JDict([eeros |-> JList(l)]), 200) :
              l \in SeqsUpTo(RouteEeroItems, 1)}
    \cup CallFailures
RouteNetworkItems ==
    {Mk([url |-> JStr(uNet), name |-> JStr(sA), status |-> JStr(sGreen)]),
     Mk([name |-> JStr(sB), guest_network_enabled |-> JTrue]),
     Mk([url |-> JStr(uNet), guest_network_enabled |-> JNull]),
     JStr(sA)}
NetworkResults ==
    {RawResponse(JList(l), 200) : l \in SeqsUpTo(RouteNetworkItems, MaxBatch)}
    \cup {RawResponse(JDict([networks |-> JList(l)]), 200) :
              l \in SeqsUpTo(RouteNetworkItems, 1)}
    \cup CallFailures

\* a device object of the vendor client: every attribute the handler reads
\* exists, None unless given
DeviceAttrs ==
    {"id", "url", "mac", "ip", "nickname", "hostname", "display_name",
     "manufacturer", "model_name", "device_type", "connected", "wireless",
     "blacklisted", "paused", "is_guest", "connectivity", "source", "profile",
     "profile_id", "last_active"}
DeviceObj(f) == JObj([a \in DeviceAttrs |-> IF a \in DOMAIN f THEN f[a] ELSE JNull])
RouteDeviceItems ==
    {DeviceObj([id |-> JStr(sDev1), mac |-> JStr(sMac), connected |-> JTrue,
                wireless |-> JTrue, profile_id |-> JStr(sProf1),
                connectivity |-> JObj([signal |-> JStr(sSigned),
                                       frequency |-> JInt(5200)]),
                source |-> JObj([location |-> JNull, display_name |-> JStr(sA)]),
                profile |-> JObj([name |-> JStr(sB)]),
                last_active |-> JDateTime(sA)]),
     DeviceObj([id |-> JStr(sDev2), nickname |-> JStr(sB), connected |-> JFalse,
                connectivity |-> JObj([signal |-> JInt(0 - 45),
                                       frequency |-> JInt(2400)])]),
     DeviceObj([id |-> JStr(sDev1), connected |-> JTrue,
                connectivity |-> JObj([signal |-> JNull,
                                       frequency |-> JStr(sFreq)])]),
     DeviceObj([id |-> JStr(sDev2), connected |-> JTrue,
                last_active |-> JStr(sA)]),
     JDict([id |-> JStr(sDev1), connected |-> JTrue])}
DeviceResults ==
    {JList(l) : l \in SeqsUpTo(RouteDeviceItems, MaxBatch)} \cup CallFailures
DeviceFilters ==
    {[connected_only |-> c, profile_id |-> p, device_ids |-> d] :
        c \in BOOLEAN, p \in {JNull, JStr(sProf1)},
        d \in {JNull, JStr(sDev2 \o <<",">> \o sMacKey)}}
NoFilter == [connected_only |-> FALSE, profile_id |-> JNull, device_ids |-> JNull]

\* profile objects: with up to MaxMembers members that are mappings,
\* objects with or without a url, or neither
RouteMembers ==
    {Mk([url |-> JStr(uDev1), nickname |-> JStr(sA)]),
     Mk([mac |-> JStr(sMac)]),
     Mk([url |-> JStr(uDev2), connected |-> JNull]),
     JObj([url |-> JStr(uDevDeep), hostname |-> JStr(sB)]),
     JObj([mac |-> JStr(sMac)]),
     JInt(5),
     JStr(uDev1)}
ProfileObj(name, devices) ==
    JObj([url |-> JStr(uProfile), name |-> name, paused |-> JFalse,
          devices |-> devices])
RouteProfiles ==
    {ProfileObj(JStr(sA), JList(l)) : l \in SeqsUpTo(RouteMembers, MaxMembers)}
    \cup {ProfileObj(JStr(sB), JNull),
          JObj([url |-> JNull, name |-> JStr(sB), paused |-> JTrue]),
          ProfileObj(JNull, JList(<<>>)),
          JInt(5)}
RouteProfileItems ==
    {ProfileObj(JStr(sA), JList(<<Mk([url |-> JStr(uDev1), nickname |-> JStr(sA)])>>)),
     ProfileObj(JStr(sB), JList(<<JInt(5)>>)),
     ProfileObj(JNull, JList(<<>>)),
     JInt(5)}
ProfileResults ==
    {JList(l) : l \in SeqsUpTo(RouteProfileItems, MaxBatch)} \cup CallFailures

\* the raw values the client's cache holds for the requests that share it
SharedEnvelopes ==
    {RawResponse(JList(<<Mk([url |-> JStr(uDev1), nickname |-> JStr(sA)])>>), 200),
     RawResponse(JDict([devices |-> LA]), 400)}
SharedDevice == Mk([url |-> JStr(uDev1), nickname |-> JStr(sA), wireless |-> JTrue])
SharedEero == Mk([url |-> JStr(uEero), gateway |-> JTrue, status |-> JStr(sUpGreen)])
SharedNetwork == Mk([url |-> JStr(uNet), name |-> JStr(sA), status |-> JStr(sConnected)])
SharedProfile ==
    Mk([url |-> JStr(uProfile), name |-> JStr(sB),
        devices |-> JList(<<Mk([url |-> JStr(uDev2)]), JInt(1)>>)])
SharedInputs ==
    SharedEnvelopes
    \cup {SharedDevice, SharedEero, SharedNetwork, SharedProfile, JStr(uDev2),
          JStr(sUpGreen)}

\* ----------------------------------------------------------- state machine
\* The last call made on the layer: the function (op), its argument (arg),
\* the list_key of extract_list (key), what it returned or raised (out), and
\* whether arg was a raw entity (pass = 1) or an already-normalized entity
\* sent through the same normalizer again (pass = 2).
VARIABLES op, arg, key, out, pass

\* The server (deps.py, main.py): the module global _client, how many
\* clients were constructed since the last shutdown (made), the instances
\* whose __aenter__ has completed (entered) and those whose __aexit__ has
\* begun (exited), whether the client holds a session (is_authenticated),
\* whether shutdown_client is suspended in __aexit__ (stopping), how many
\* shutdowns have completed (shutdowns), and for each request where it
\* stands (pc) and what it saw (req).
VARIABLES _client, made, entered, exited, is_authenticated, stopping,
          shutdowns, pc, req
server == <<_client, made, entered, exited, is_authenticated, stopping,
            shutdowns, pc, req>>
layer == <<op, arg, key, out, pass>>

\* The memory the requests share: the raw value the client's cache holds
\* and hands to every request that asks (heap), that value as the vendor
\* delivered it (origin), and for each request the last call it made on the
\* normalization layer (calls).
VARIABLES heap, origin, calls
memory == <<heap, origin, calls>>
vars == <<op, arg, key, out, pass, _client, made, entered, exited,
          is_authenticated, stopping, shutdowns, pc, req, heap, origin, calls>>

\* the requests, and a request that has not begun
Requests == 1..MaxRequests
NoRequest ==
    [route |-> "none", client |-> JNull, ready |-> FALSE, auth |-> "unchecked",
     lookup |-> FALSE, called |-> FALSE, status |-> 0]

NoCall == [fn |-> "none", input |-> JNull, result |-> JNull, alone |-> JNull]

Normalizers == {"normalize_network", "normalize_device", "normalize_eero",
                "normalize_profile"}

\* the normalizer named n applied to raw
Normalize(n, raw) ==
    CASE n = "normalize_network" -> normalize_network(raw)
      [] n = "normalize_device" -> normalize_device(raw)
      [] n = "normalize_eero" -> normalize_eero(raw)
      [] n = "normalize_profile" -> normalize_profile(raw)

\* [normalize_device(d) for d in devices]: the first exception ends it
NormalizeEach(devices) ==
    IF \E i \in 1..Len(devices) : IsRaised(normalize_device(devices[i]))
    THEN normalize_device(devices[CHOOSE i \in 1..Len(devices) :
            /\ IsRaised(normalize_device(devices[i]))
            /\ \A j \in 1..(i - 1) : ~IsRaised(normalize_device(devices[j]))])
    ELSE JList([i \in 1..Len(devices) |-> normalize_device(devices[i])])

\* a normalized entity as the canonical schema carries it: without "_raw"
StripRaw(entity) == JDict([k \in DOMAIN entity.d \ {"_raw"} |-> entity.d[k]])

Init ==
    /\ op = "none"
    /\ arg = JNull
    /\ key = NoKey
    /\ out = JNull
    /\ pass = 0
    /\ _client = JNull
    /\ made = 0
    /\ entered = {}
    /\ exited = {}
    /\ is_authenticated = FALSE
    /\ stopping = FALSE
    /\ shutdowns = 0
    /\ pc = [r \in Requests |-> "idle"]
    /\ req = [r \in Requests |-> NoRequest]
    /\ heap = JNull
    /\ origin = JNull
    /\ calls = [r \in Requests |-> NoCall]

\* each call is made once, from the idle state
ExtractData ==
    /\ op = "none"
    /\ \E r \in ExtractInputs :
          /\ arg' = r
          /\ out' = extract_data(r)
    /\ op' = "extract_data"
    /\ key' = NoKey
    /\ pass' = 1
    /\ UNCHANGED <<server, memory>>

ExtractList ==
    /\ op = "none"
    /\ \E r \in ExtractInputs, k \in ListKeys :
          /\ arg' = r
          /\ key' = k
          /\ out' = extract_list(r, k)
    /\ op' = "extract_list"
    /\ pass' = 1
    /\ UNCHANGED <<server, memory>>

CheckSuccess ==
    /\ op = "none"
    /\ \E r \in SuccessInputs :
          /\ arg' = r
          /\ out' = JBool(check_success(r))
    /\ op' = "check_success"
    /\ key' = NoKey
    /\ pass' = 1
    /\ UNCHANGED <<server, memory>>

ExtractIdFromUrl ==
    /\ op = "none"
    /\ \E u \in UrlInputs :
          /\ arg' = u
          /\ out' = extract_id_from_url(u)
    /\ op' = "extract_id_from_url"
    /\ key' = NoKey
    /\ pass' = 1
    /\ UNCHANGED <<server, memory>>

NormalizeStatus ==
    /\ op = "none"
    /\ \E st \in StatusInputs :
          /\ arg' = st
          /\ out' = normalize_status(st)
    /\ op' = "normalize_status"
    /\ key' = NoKey
    /\ pass' = 1
    /\ UNCHANGED <<server, memory>>

\* the status just normalized goes through normalize_status again
RenormalizeStatus ==
    /\ op = "normalize_status"
    /\ pass = 1
    /\ op' = op
    /\ arg' = out
    /\ key' = key
    /\ out' = normalize_status(out)
    /\ pass' = 2
    /\ UNCHANGED <<server, memory>>

NormalizeNetwork ==
    /\ op = "none"
    /\ \E r \in RawNetworks :
          /\ arg' = r
          /\ out' = normalize_network(r)
    /\ op' = "normalize_network"
    /\ key' = NoKey
    /\ pass' = 1
    /\ UNCHANGED <<server, memory>>

NormalizeDevice ==
    /\ op = "none"
    /\ \E r \in RawDevices :
          /\ arg' = r
          /\ out' = normalize_device(r)
    /\ op' = "normalize_device"
    /\ key' = NoKey
    /\ pass' = 1
    /\ UNCHANGED <<server, memory>>

NormalizeEero ==
    /\ op = "none"
    /\ \E r \in RawEeros :
          /\ arg' = r
          /\ out' = normalize_eero(r)
    /\ op' = "normalize_eero"
    /\ key' = NoKey
    /\ pass' = 1
    /\ UNCHANGED <<server, memory>>

NormalizeProfile ==
    /\ op = "none"
    /\ \E r \in RawProfiles :
          /\ arg' = r
          /\ out' = normalize_profile(r)
    /\ op' = "normalize_profile"
    /\ key' = NoKey
    /\ pass' = 1
    /\ UNCHANGED <<server, memory>>

NormalizeBatch ==
    /\ op = "none"
    /\ \E ds \in SeqsUpTo(BatchDevices, MaxBatch) :
          /\ arg' = JList(ds)
          /\ out' = NormalizeEach(ds)
    /\ op' = "normalize_batch"
    /\ key' = NoKey
    /\ pass' = 1
    /\ UNCHANGED <<server, memory>>

\* POST /login, /verify, /logout: arg is the outcome of the client call and
\* the files before the request, out the response and the exporter session
\* file after it
Login ==
    /\ op = "none"
    /\ \E c \in AuthCalls :
          /\ arg' = c
          /\ out' = Answer(login(c.result), c.exporter)
    /\ op' = "login"
    /\ key' = NoKey
    /\ pass' = 1
    /\ UNCHANGED <<server, memory>>

Verify ==
    /\ op = "none"
    /\ \E c \in AuthCalls :
          /\ arg' = c
          /\ out' = verify(c.result, c.preferred_network_id, c.session,
                           c.exporter, c.io_ok)
    /\ op' = "verify"
    /\ key' = NoKey
    /\ pass' = 1
    /\ UNCHANGED <<server, memory>>

Logout ==
    /\ op = "none"
    /\ \E c \in AuthCalls :
          /\ arg' = c
          /\ out' = logout(c.result, c.exporter, c.io_ok)
    /\ op' = "logout"
    /\ key' = NoKey
    /\ pass' = 1
    /\ UNCHANGED <<server, memory>>

ListDevices ==
    /\ op = "none"
    /\ \E r \in DeviceResults, f \in DeviceFilters :
          /\ arg' = [t |-> "call", result |-> r, filters |-> f]
          /\ out' = list_devices(r, f.connected_only, f.profile_id, f.device_ids)
    /\ op' = "list_devices"
    /\ key' = NoKey
    /\ pass' = 1
    /\ UNCHANGED <<server, memory>>

ListEeros ==
    /\ op = "none"
    /\ \E r \in EeroResults :
          /\ arg' = [t |-> "call", result |-> r, filters |-> NoFilter]
          /\ out' = list_eeros(r)
    /\ op' = "list_eeros"
    /\ key' = NoKey
    /\ pass' = 1
    /\ UNCHANGED <<server, memory>>

ListNetworks ==
    /\ op = "none"
    /\ \E r \in NetworkResults :
          /\ arg' = [t |-> "call", result |-> r, filters |-> NoFilter]
          /\ out' = list_networks(r)
    /\ op' = "list_networks"
    /\ key' = NoKey
    /\ pass' = 1
    /\ UNCHANGED <<server, memory>>

ListProfiles ==
    /\ op = "none"
    /\ \E r \in ProfileResults :
          /\ arg' = [t |-> "call", result |-> r, filters |-> NoFilter]
          /\ out' = list_profiles(r)
    /\ op' = "list_profiles"
    /\ key' = NoKey
    /\ pass' = 1
    /\ UNCHANGED <<server, memory>>

GetProfile ==
    /\ op = "none"
    /\ \E r \in RouteProfiles \cup CallFailures :
          /\ arg' = [t |-> "call", result |-> r, filters |-> NoFilter]
          /\ out' = get_profile(r)
    /\ op' = "get_profile"
    /\ key' = NoKey
    /\ pass' = 1
    /\ UNCHANGED <<server, memory>>

\* the entity just normalized goes through the same normalizer again
Renormalize ==
    /\ op \in Normalizers
    /\ pass = 1
    /\ ~IsRaised(out)
    /\ op' = op
    /\ arg' = StripRaw(out)
    /\ key' = key
    /\ out' = Normalize(op, StripRaw(out))
    /\ pass' = 2
    /\ UNCHANGED <<server, memory>>

Next ==
    \/ ExtractData
    \/ ExtractList
    \/ CheckSuccess
    \/ ExtractIdFromUrl
    \/ NormalizeStatus
    \/ RenormalizeStatus
    \/ NormalizeNetwork
    \/ NormalizeDevice
    \/ NormalizeEero
    \/ NormalizeProfile
    \/ NormalizeBatch
    \/ Renormalize
    \/ Login
    \/ Verify
    \/ Logout
    \/ ListDevices
    \/ ListEeros
    \/ ListNetworks
    \/ ListProfiles
    \/ GetProfile

Spec == Init /\ [][Next]_vars

TypeOK ==
    /\ op \in {"none", "extract_data", "extract_list", "check_success",
               "extract_id_from_url", "normalize_status", "normalize_batch",
               "login", "verify", "logout", "list_devices", "list_eeros",
               "list_networks", "list_profiles", "get_profile"}
              \cup Normalizers
    /\ pass \in 0..2
    /\ out.t \in {"null", "bool", "int", "str", "list", "dict", "raise",
                 "http", "answer"}

\* ------------------------------------------------------------------ server
\* The dependencies FastAPI resolves, in order, before it runs a handler.
\* The mutant leaves the handlers of routes/networks.py with the client only.
AuthRoutes == {"get_auth_status", "login", "verify", "logout"}
NetworkRoutes == {"list_networks", "get_network", "set_preferred_network",
                  "run_speed_test", "toggle_guest_network"}
ScopedRoutes == {"list_devices", "get_device", "block_device", "unblock_device",
                 "set_device_nickname", "prioritize_device", "deprioritize_device",
                 "list_eeros", "get_eero", "reboot_eero", "set_eero_led",
                 "set_eero_led_brightness",
                 "list_profiles", "get_profile", "pause_profile", "unpause_profile"}
DataRoutes == NetworkRoutes \cup ScopedRoutes
Dependencies_open(route) ==
    IF route \in ScopedRoutes
    THEN <<"get_eero_client", "require_auth", "get_network_id">>
    ELSE <<"get_eero_client">>
Dependencies(route) ==
    IF route \in ScopedRoutes
    THEN <<"get_eero_client", "require_auth", "get_network_id">>
    ELSE IF route \in NetworkRoutes THEN <<"get_eero_client", "require_auth">>
    ELSE <<"get_eero_client">>
Needs(route, dependency) ==
    \E i \in 1..Len(Dependencies(route)) : Dependencies(route)[i] = dependency

\* the routes the requests of the model ask for
RequestedRoutes == {"login", "logout", "set_preferred_network", "list_devices"}

\* EeroClient(...): the n-th instance constructed after shutdowns shutdowns
EeroClient(epoch, n) == [t |-> "client", epoch |-> epoch, n |-> n]

\* "yield _client": what get_eero_client hands to the request, and whether
\* that instance is initialized and not shutting down at that moment
Yielded(request, shared, initialized, closing) ==
    [request EXCEPT !.client = shared,
                    !.ready = shared \in initialized /\ shared \notin closing]

\* shutdown_client(): the global after "await __aexit__"; the mutant keeps it
shutdown_client_kept(shared) == shared
shutdown_client(shared) == JNull

\* get_eero_client() from the start of a request to its first suspension:
\* with no shared client it constructs one, assigns the global and suspends
\* in __aenter__; otherwise it yields the shared client at once.  No request
\* begins while the application shuts down.
GetEeroClient(r) ==
    /\ pc[r] = "idle"
    /\ ~stopping
    /\ \E route \in RequestedRoutes :
          IF _client = JNull
          THEN /\ _client' = EeroClient(shutdowns, made + 1)
               /\ made' = made + 1
               /\ \E session \in BOOLEAN : is_authenticated' = session
               /\ pc' = [pc EXCEPT ![r] = "aenter"]
               /\ req' = [req EXCEPT ![r] = [NoRequest EXCEPT !.route = route]]
          ELSE /\ pc' = [pc EXCEPT ![r] = "resolved"]
               /\ req' = [req EXCEPT ![r] =
                             Yielded([NoRequest EXCEPT !.route = route], _client,
                                     entered, exited)]
               /\ UNCHANGED <<_client, made, is_authenticated>>
    /\ UNCHANGED <<entered, exited, stopping, shutdowns, layer, memory>>

\* "await _client.__aenter__()" returns to the request that constructed the
\* client, which then yields the global as it is now
AEnterReturns(r) ==
    /\ pc[r] = "aenter"
    /\ entered' = entered \cup {EeroClient(shutdowns, made)}
    /\ pc' = [pc EXCEPT ![r] = "resolved"]
    /\ req' = [req EXCEPT ![r] = Yielded(req[r], _client, entered', exited)]
    /\ UNCHANGED <<_client, made, exited, is_authenticated, stopping, shutdowns,
                   layer, memory>>

\* require_auth(): HTTP 401 unless the client holds a session
RequireAuth(r) ==
    /\ pc[r] = "resolved"
    /\ Needs(req[r].route, "require_auth")
    /\ IF req[r].client = JNull
       THEN /\ pc' = [pc EXCEPT ![r] = "done"]
            /\ req' = [req EXCEPT ![r].status = 500]
       ELSE IF ~is_authenticated
       THEN /\ pc' = [pc EXCEPT ![r] = "done"]
            /\ req' = [req EXCEPT ![r].auth = "denied", ![r].status = 401]
       ELSE /\ pc' = [pc EXCEPT ![r] = IF Needs(req[r].route, "get_network_id")
                                        THEN "authorized" ELSE "ready"]
            /\ req' = [req EXCEPT ![r].auth = "granted"]
    /\ UNCHANGED <<_client, made, entered, exited, is_authenticated, stopping,
                   shutdowns, layer, memory>>

\* get_network_id(): the network_id of the query or the preferred network of
\* the client, else a get_networks call on the client: its first network,
\* HTTP 401 when it raises EeroAuthenticationException, HTTP 400 without one
GetNetworkId(r) ==
    /\ pc[r] = "authorized"
    /\ \E found \in {"network_id", "preferred_network_id", "networks",
                      "EeroAuthenticationException", "nothing"} :
          /\ pc' = [pc EXCEPT ![r] =
                       IF found \in {"EeroAuthenticationException", "nothing"}
                       THEN "done" ELSE "ready"]
          /\ req' = [req EXCEPT
                       ![r].lookup = found \notin {"network_id", "preferred_network_id"},
                       ![r].status = CASE found = "EeroAuthenticationException" -> 401
                                       [] found = "nothing" -> 400
                                       [] OTHER -> 0]
    /\ UNCHANGED <<_client, made, entered, exited, is_authenticated, stopping,
                   shutdowns, layer, memory>>

\* the handler runs with its dependencies resolved and makes its call on the
\* client; login and logout change the session the client holds
Handle(r) ==
    /\ \/ pc[r] = "ready"
       \/ pc[r] = "resolved" /\ ~Needs(req[r].route, "require_auth")
    /\ IF req[r].client = JNull
       THEN /\ req' = [req EXCEPT ![r].status = 500]
            /\ UNCHANGED is_authenticated
       ELSE /\ \E ok \in BOOLEAN :
                 /\ req' = [req EXCEPT ![r].called = TRUE,
                                       ![r].status = IF ok THEN 200 ELSE 500]
                 /\ is_authenticated' =
                       CASE req[r].route = "login" -> (ok \/ is_authenticated)
                         [] req[r].route = "logout" -> FALSE
                         [] OTHER -> is_authenticated
    /\ pc' = [pc EXCEPT ![r] = "done"]
    /\ UNCHANGED <<_client, made, entered, exited, stopping, shutdowns, layer, memory>>

\* the response is sent and the request is over
Respond(r) ==
    /\ pc[r] = "done"
    /\ pc' = [pc EXCEPT ![r] = "idle"]
    /\ req' = [req EXCEPT ![r] = NoRequest]
    /\ UNCHANGED <<_client, made, entered, exited, is_authenticated, stopping,
                   shutdowns, layer, memory>>

\* lifespan(): shutdown_client() runs when the server has stopped, with no
\* request in flight; with a shared client it suspends in __aexit__, without
\* one it returns at once
ShutdownBegins ==
    /\ \A r \in Requests : pc[r] = "idle"
    /\ ~stopping
    /\ shutdowns < MaxShutdowns
    /\ IF _client # JNull
       THEN /\ stopping' = TRUE
            /\ exited' = exited \cup {_client}
            /\ UNCHANGED shutdowns
       ELSE /\ shutdowns' = shutdowns + 1
            /\ UNCHANGED <<stopping, exited>>
    /\ UNCHANGED <<_client, made, entered, is_authenticated, pc, req, layer, memory>>

\* "await _client.__aexit__(None, None, None)" returns: the global is cleared
ShutdownEnds ==
    /\ stopping
    /\ _client' = shutdown_client(_client)
    /\ stopping' = FALSE
    /\ shutdowns' = shutdowns + 1
    /\ made' = 0
    /\ UNCHANGED <<entered, exited, is_authenticated, pc, req, layer, memory>>

NextServer ==
    \/ \E r \in Requests : GetEeroClient(r)
    \/ \E r \in Requests : AEnterReturns(r)
    \/ \E r \in Requests : RequireAuth(r)
    \/ \E r \in Requests : GetNetworkId(r)
    \/ \E r \in Requests : Handle(r)
    \/ \E r \in Requests : Respond(r)
    \/ ShutdownBegins
    \/ ShutdownEnds

SpecServer == Init /\ [][NextServer]_vars

TypeOKServer ==
    /\ _client = JNull \/ _client.t = "client"
    /\ made \in 0..1
    /\ shutdowns \in 0..MaxShutdowns
    /\ \A r \in Requests :
          /\ pc[r] \in {"idle", "aenter", "resolved", "authorized", "ready", "done"}
          /\ req[r].status \in {0, 200, 400, 401, 500}

\* ------------------------------------------------------------------ memory
\* The functions of the layer and what a call of each returns.
LayerFunctions == {"extract_data", "extract_list", "extract_id_from_url",
                   "normalize_status", "check_success"} \cup Normalizers
Apply(fn, input) ==
    CASE fn = "extract_data" -> extract_data(input)
      [] fn = "extract_list" -> extract_list(input, Key("devices"))
      [] fn = "extract_id_from_url" -> extract_id_from_url(input)
      [] fn = "normalize_status" -> JStr(normalize_status(input))
      [] fn = "check_success" -> JBool(check_success(input))
      [] OTHER -> Normalize(fn, input)

\* the functions the handlers call on a value the cache holds: the
\* extractors and the success checker on an envelope, its normalizer on a
\* raw entity, extract_id_from_url and normalize_status on a url and a status
FunctionsFor(input) ==
    CASE input \in SharedEnvelopes -> {"extract_data", "extract_list", "check_success"}
      [] input = SharedDevice -> {"normalize_device"}
      [] input = SharedEero -> {"normalize_eero"}
      [] input = SharedNetwork -> {"normalize_network"}
      [] input = SharedProfile -> {"normalize_profile"}
      [] input = JStr(uDev2) -> {"extract_id_from_url"}
      [] OTHER -> {"normalize_status"}

\* The keys of its argument and the module-level names that a function of
\* the layer assigns or deletes: none (it builds new mappings and lists, and
\* "_raw" refers to the argument without changing it).  The mutant pops
\* "url" from the raw entity in the normalizers.
Writes_popping(fn) == IF fn \in Normalizers THEN {"url"} ELSE {}
Writes(fn) == {}

\* the argument as the call leaves it
After(fn, input) ==
    IF IsDict(input)
    THEN JDict([k \in DOMAIN input.d \ Writes(fn) |-> input.d[k]])
    ELSE input

\* the client refreshes its cache: the vendor's value replaces the one held
Fetch ==
    /\ \E raw \in SharedInputs :
          /\ heap' = raw
          /\ origin' = raw
    /\ UNCHANGED <<calls, layer, server>>

\* a request calls a function of the layer on the value the cache holds; the
\* functions are synchronous, so a call runs from start to end before any
\* other request runs
Call(r) ==
    /\ heap # JNull
    /\ \E fn \in FunctionsFor(heap) :
          /\ calls' = [calls EXCEPT ![r] =
                          [fn |-> fn, input |-> heap, result |-> Apply(fn, heap),
                           alone |-> Apply(fn, origin)]]
          /\ heap' = After(fn, heap)
    /\ UNCHANGED <<origin, layer, server>>

NextMemory ==
    \/ Fetch
    \/ \E r \in Requests : Call(r)

SpecMemory == Init /\ [][NextMemory]_vars

\* ------------------------------------------------------------------ claims
IsEnvelope(v) == IsDict(v) /\ Has(v, "meta") /\ Has(v, "data")

\* C1: extract_data on an envelope returns the value of "data" when that is
\* a mapping and the empty mapping when it is a sequence.
C1_ExtractDataUnwraps ==
    (op = "extract_data" /\ IsEnvelope(arg)) =>
        /\ IsDict(arg.d["data"]) => out = arg.d["data"]
        /\ IsList(arg.d["data"]) => out = EmptyDict

C1_Witness ==
    /\ op = "extract_data"
    /\ IsEnvelope(arg)
    /\ IsDict(arg.d["data"])
    /\ Cardinality(DOMAIN arg.d["data"].d) = 2
    /\ out = arg.d["data"]

\* the premise of C2: a mapping whose "meta" is a mapping with a "code" key
HasCode(v) == IsDict(v) /\ Has(v, "meta") /\ IsDict(v.d["meta"])
              /\ Has(v.d["meta"], "code")
CodeOf(v) == v.d["meta"].d["code"]

\* C2 as claimed: for every value c under meta.code, null included,
\* check_success is true if and only if c equals 200.
C2_Original ==
    (op = "check_success" /\ HasCode(arg)) =>
        (out = JTrue <=> CodeOf(arg) = JInt(200))

\* C2 as amended: for every value c under meta.code other than null,
\* check_success is true if and only if c equals 200; a null code gives true.
C2_CodeDecides ==
    (op = "check_success" /\ HasCode(arg)) =>
        /\ out \in {JTrue, JFalse}
        /\ CodeOf(arg) # JNull => (out = JTrue <=> CodeOf(arg) = JInt(200))
        /\ CodeOf(arg) = JNull => out = JTrue

C2_Witness ==
    /\ op = "check_success"
    /\ HasCode(arg)
    /\ CodeOf(arg) = JNull
    /\ out = JTrue

\* C3: no normalizer raises: every call of normalize_network,
\* normalize_device, normalize_eero and normalize_profile on a mapping
\* returns a mapping.
C3_NormalizersNeverRaise ==
    (op \in Normalizers /\ pass = 1) => IsDict(out)

\* connectivity.signal of a raw device is there and is no string
SignalWrongType(dev) ==
    /\ Has(dev, "connectivity")
    /\ IsDict(dev.d["connectivity"])
    /\ Has(dev.d["connectivity"], "signal")
    /\ ~IsStr(dev.d["connectivity"].d["signal"])

\* C4: normalize_device over a list of N raw devices gives N normalized
\* devices in input order, nothing raised; a device whose connectivity.signal
\* has the wrong type is kept, with signal_strength null.
C4_BatchRobust ==
    op = "normalize_batch" =>
        /\ IsList(out)
        /\ Len(out.l) = Len(arg.l)
        /\ \A i \in 1..Len(arg.l) :
              /\ IsDict(out.l[i])
              /\ out.l[i].d["_raw"] = arg.l[i]
              /\ out.l[i].d["url"] = arg.l[i].d["url"]
              /\ SignalWrongType(arg.l[i]) => out.l[i].d["signal_strength"] = JNull

C4_Witness ==
    /\ op = "normalize_batch"
    /\ IsList(out)
    /\ Len(out.l) >= 2
    /\ \E i, j \in 1..Len(out.l) :
          /\ Get(arg.l[i].d["connectivity"], "signal") = JInt(0 - 45)
          /\ out.l[i].d["signal_strength"] = JNull
          /\ out.l[j].d["signal_strength"] = JInt(0 - 45)

\* C5: normalizing an already-normalized entity (without "_raw") changes no
\* canonical field.
C5_Idempotent ==
    (op \in Normalizers /\ pass = 2) =>
        /\ IsDict(out)
        /\ \A k \in DOMAIN arg.d : out.d[k] = arg.d[k]

\* C6: device_count of a normalized profile is the length of its devices
\* list, whatever count the vendor supplied.
C6_DeviceCountIsLength ==
    (op = "normalize_profile" /\ IsDict(out)) =>
        out.d["device_count"] = JInt(Len(out.d["devices"].l))

C6_Witness ==
    /\ op = "normalize_profile"
    /\ pass = 1
    /\ IsDict(out)
    /\ Get(arg, "device_count") = JInt(7)
    /\ Len(out.d["devices"].l) = 2
    /\ out.d["device_count"] = JInt(2)

\* the ids of the entries of a devices list, in order
EntryIds(devices) == [i \in 1..Len(devices) |-> devices[i].d["id"]]
NotNull(v) == v # JNull

\* C7 as claimed: device_ids is the sequence of the ids of the entries of
\* devices, one per member device.
C7_Original ==
    (op = "normalize_profile" /\ IsDict(out)) =>
        /\ out.d["device_ids"].l = EntryIds(out.d["devices"].l)
        /\ JInt(Len(out.d["device_ids"].l)) = out.d["device_count"]

\* C7 as amended: device_ids is, in input order, the sequence of the
\* non-null ids of the entries of devices; a member without an id has an
\* entry in devices and none in device_ids.
C7_DeviceIdsAreNonNullIds ==
    (op = "normalize_profile" /\ IsDict(out)) =>
        /\ out.d["device_ids"].l = SelectSeq(EntryIds(out.d["devices"].l), NotNull)
        /\ Len(out.d["device_ids"].l) <= Len(out.d["devices"].l)

C7_Witness ==
    /\ op = "normalize_profile"
    /\ pass = 1
    /\ IsDict(out)
    /\ Len(out.d["devices"].l) = 2
    /\ out.d["devices"].l[1].d["id"] = JNull
    /\ out.d["device_ids"].l = <<out.d["devices"].l[2].d["id"]>>

\* the resolution order of C8, written from the claim: the candidates in
\* order, each unwrapped one level, and the first that is a sequence
C8_Unwrapped(v) ==
    IF IsDict(v) /\ Has(v, "data") /\ IsList(v.d["data"]) THEN v.d["data"] ELSE v
C8_KeyOrder(list_key) ==
    (IF list_key.some THEN <<list_key.k>> ELSE <<>>)
    \o <<"data", "networks", "eeros", "devices", "profiles">>
C8_Under(m, keys) ==
    [i \in 1..Len(keys) |-> IF Has(m, keys[i]) THEN C8_Unwrapped(m.d[keys[i]])
                            ELSE JNull]
C8_Candidates(raw, list_key) ==
    <<raw>>
    \o (IF IsEnvelope(raw) THEN <<raw.d["data"]>> ELSE <<>>)
    \o (IF IsEnvelope(raw) /\ IsDict(raw.d["data"])
        THEN C8_Under(raw.d["data"], C8_KeyOrder(list_key)) ELSE <<>>)
C8_First(cands) ==
    IF \E i \in 1..Len(cands) : IsList(cands[i])
    THEN cands[CHOOSE i \in 1..Len(cands) :
                  /\ IsList(cands[i])
                  /\ \A j \in 1..(i - 1) : ~IsList(cands[j])]
    ELSE EmptyList

HoldsList(m) ==
    \E k \in DOMAIN m.d :
        \/ IsList(m.d[k])
        \/ IsDict(m.d[k]) /\ \E j \in DOMAIN m.d[k].d : IsList(m.d[k].d[j])

\* the structure extract_data looks for is absent: no mapping, or an
\* envelope whose data is no mapping
NoMappingIn(v) == ~IsDict(v) \/ (IsEnvelope(v) /\ ~IsDict(v.d["data"]))

\* the structure extract_list looks for is absent: the payload (the data of
\* an envelope, else the input) is no sequence and no mapping that holds one
NoListIn(v) ==
    LET payload == IF IsEnvelope(v) THEN v.d["data"] ELSE v
    IN /\ ~IsList(payload)
       /\ IsDict(payload) => ~HoldsList(payload)

\* C9: extract_data always returns a mapping and extract_list a sequence,
\* nothing raised; null gives {} and []; so does every input that lacks the
\* expected structure.
C9_ExtractorsTotal ==
    /\ op = "extract_data" =>
          /\ IsDict(out)
          /\ arg = JNull => out = EmptyDict
          /\ NoMappingIn(arg) => out = EmptyDict
    /\ op = "extract_list" =>
          /\ IsList(out)
          /\ arg = JNull => out = EmptyList
          /\ NoListIn(arg) => out = EmptyList

C9_Witness ==
    /\ op = "extract_data"
    /\ arg.t = "str"
    /\ out = EmptyDict

\* what the search of the envelope case finds in a mapping m
C10_AsInEnvelope(m, list_key) == C8_First(C8_Under(m, C8_KeyOrder(list_key)))

\* C10 as claimed: without envelope extract_data returns the input mapping,
\* and extract_list returns a sequence as it is and, from a mapping, the
\* list found under the same keys and nesting as in the envelope case.
C10_Original ==
    /\ (op = "extract_data" /\ IsDict(arg) /\ ~IsEnvelope(arg)) => out = arg
    /\ (op = "extract_list" /\ IsList(arg)) => out = arg
    /\ (op = "extract_list" /\ IsDict(arg) /\ ~IsEnvelope(arg)) =>
          out = C10_AsInEnvelope(arg, key)

\* C10 as amended: without envelope extract_data returns the input mapping,
\* and extract_list returns a sequence as it is and, from a mapping, the
\* sequence stored directly under the supplied list_key, [] when no list_key
\* is supplied or its value is no sequence (no fallback key, no nesting).
C10_PassThrough ==
    /\ (op = "extract_data" /\ IsDict(arg) /\ ~IsEnvelope(arg)) => out = arg
    /\ (op = "extract_list" /\ IsList(arg)) => out = arg
    /\ (op = "extract_list" /\ IsDict(arg) /\ ~IsEnvelope(arg)) =>
          out = IF key.some /\ Has(arg, key.k) /\ IsList(arg.d[key.k])
                THEN arg.d[key.k] ELSE EmptyList

C10_Witness ==
    /\ op = "extract_list"
    /\ IsDict(arg)
    /\ ~IsEnvelope(arg)
    /\ key = Key("items")
    /\ Has(arg, "items")
    /\ IsDict(arg.d["items"])
    /\ Has(arg, "networks")
    /\ arg.d["networks"] = LA
    /\ out = EmptyList

\* the final non-empty "/"-separated segment of s, after one trailing "/" is
\* stripped: the letters between the last "/" before the last letter that
\* is not "/" and that letter; <<>> when s has no such letter
C11_StripOne(s) ==
    IF s # <<>> /\ s[Len(s)] = "/" THEN SubSeq(s, 1, Len(s) - 1) ELSE s
C11_FinalSegment(s) ==
    LET letters == {i \in 1..Len(s) : s[i] # "/"}
    IN IF letters = {} THEN <<>>
       ELSE LET last == CHOOSE i \in letters : \A j \in letters : j <= i
                slashes == {i \in 1..last : s[i] = "/"}
                first == IF slashes = {} THEN 1
                         ELSE 1 + CHOOSE i \in slashes : \A j \in slashes : j <= i
            IN SubSeq(s, first, last)

\* C11: extract_id_from_url gives null for a null or empty url; for every
\* other url string it gives the final non-empty "/"-separated segment of
\* the url after one trailing "/" is stripped, and never the empty string.
C11_FinalNonEmptySegment ==
    (op = "extract_id_from_url" /\ arg.t \in {"null", "str"}) =>
        IF arg = JNull \/ arg = JStr(<<>>) THEN out = JNull
        ELSE /\ IsStr(out)
             /\ out.s # <<>>
             /\ out.s = C11_FinalSegment(C11_StripOne(arg.s))

\* the table of C12, written from the claim
C12_Keys == {sGreen, sConnected, sRed, sDisconnected, sYellow}
C12_Table(lowered) ==
    IF lowered \in {sGreen, sConnected} THEN sOnline
    ELSE IF lowered \in {sRed, sDisconnected} THEN sOffline
    ELSE IF lowered = sYellow THEN sWarning
    ELSE lowered

\* C12: normalize_status of a string is the table entry of the lower-cased
\* string ("green", "connected" to "online"; "red", "disconnected" to
\* "offline"; "yellow" to "warning"), or the lower-cased string itself when
\* the table has no entry; null gives "unknown"; the result is never one of
\* the five keys of the table.
C12_TableDriven ==
    (op = "normalize_status" /\ arg.t \in {"null", "str"}) =>
        /\ out = IF arg = JNull THEN JStr(sUnknown)
                 ELSE JStr(C12_Table(Lower(arg.s)))
        /\ out.s \notin C12_Keys

C12_Witness ==
    /\ op = "normalize_status"
    /\ arg = JStr(sUpYellow)
    /\ out = JStr(sWarning)

\* C13: normalize_status of a mapping with a "status" key is normalize_status
\* of the value under that key (so a null under it gives "unknown"), and of
\* a mapping without a "status" key it is "unknown".
C13_MappingAsSubField ==
    (op = "normalize_status" /\ IsDict(arg)) =>
        out = IF Has(arg, "status") THEN normalize_status(arg.d["status"])
              ELSE JStr(sUnknown)

\* the candidates of an alias-resolved field, in priority order
DisplayNameAliases == <<"display_name", "nickname", "hostname">>
FirmwareAliases == <<"firmware_version", "os_version", "os">>
OsVersionAliases == <<"os_version", "os">>
PublicIpAliases == <<"public_ip", "wan_ip">>

\* the value of the first candidate of m that satisfies Wins, or else the
\* value dflt
C14_First(m, cands, Wins(_), dflt) ==
    LET hits == {i \in 1..Len(cands) : Wins(Get(m, cands[i]))}
    IN IF hits = {} THEN dflt
       ELSE Get(m, cands[CHOOSE i \in hits : \A j \in hits : i <= j])
C14_Last(m, cands) == Get(m, cands[Len(cands)])

\* C14 as claimed: an alias-resolved field is the value of the first
\* candidate that is present and not null (an empty string, 0 or false
\* counts as present), and null when every candidate is missing or null.
C14_Original ==
    /\ (op = "normalize_device" /\ IsDict(out)) =>
          out.d["display_name"] = C14_First(arg, DisplayNameAliases, NotNull, JNull)
    /\ (op = "normalize_eero" /\ IsDict(out)) =>
          out.d["firmware_version"] = C14_First(arg, FirmwareAliases, NotNull, JNull)

\* C14 as amended: an alias-resolved field is the value of the first
\* candidate that is truthy (not missing, null, empty, 0 or false); when no
\* candidate is truthy it is the value of the last candidate, null when
\* that one is missing.
C14_FirstTruthyWins ==
    /\ (op = "normalize_device" /\ IsDict(out)) =>
          out.d["display_name"] =
              C14_First(arg, DisplayNameAliases, Truthy,
                        C14_Last(arg, DisplayNameAliases))
    /\ (op = "normalize_eero" /\ IsDict(out)) =>
          /\ out.d["firmware_version"] =
                C14_First(arg, FirmwareAliases, Truthy,
                          C14_Last(arg, FirmwareAliases))
          /\ out.d["os_version"] =
                C14_First(arg, OsVersionAliases, Truthy,
                          C14_Last(arg, OsVersionAliases))
    /\ (op = "normalize_network" /\ IsDict(out)) =>
          out.d["public_ip"] =
              C14_First(arg, PublicIpAliases, Truthy,
                        C14_Last(arg, PublicIpAliases))

C14_Witness ==
    /\ op = "normalize_device"
    /\ pass = 1
    /\ IsDict(out)
    /\ Get(arg, "display_name") = JStr(<<>>)
    /\ Get(arg, "nickname") = JStr(sB)
    /\ out.d["display_name"] = JStr(sB)

\* C15: connection_type of a normalized device is "wireless" or "wired"; it
\* is "wireless" exactly when the wireless flag of the input is true (has
\* the truth value true), whatever connection_type the input carries, and
\* exactly when the wireless field of the output is true.
C15_ConnectionTypeFromWireless ==
    (op = "normalize_device" /\ IsDict(out)) =>
        LET connection_type == out.d["connection_type"]
        IN /\ connection_type \in {JStr(sWireless), JStr(sWired)}
           /\ connection_type = JStr(sWireless) <=> Truthy(Get(arg, "wireless"))
           /\ connection_type = JStr(sWireless) <=> Truthy(out.d["wireless"])

C15_Witness ==
    /\ op = "normalize_device"
    /\ pass = 1
    /\ IsDict(out)
    /\ Get(arg, "connection_type") = JStr(sWired)
    /\ Get(arg, "wireless") = JTrue
    /\ out.d["connection_type"] = JStr(sWireless)

\* connectivity.frequency of a raw device whose connectivity is a mapping
C16_RawFrequency(raw) == Get(Get(raw, "connectivity"), "frequency")
C16_Band(f) == IF f > 4000 THEN JStr(s5GHz) ELSE JStr(s24GHz)

\* C16 as claimed: for every integer f under connectivity.frequency, 0
\* included, frequency is "5GHz" if f > 4000 and "2.4GHz" otherwise and
\* frequency_mhz is f; for an absent or null frequency both are null.
C16_Original ==
    (op = "normalize_device" /\ IsDict(out) /\ IsDict(Get(arg, "connectivity"))) =>
        LET f == C16_RawFrequency(arg)
        IN /\ f.t = "int" =>
                /\ out.d["frequency"] = C16_Band(f.i)
                /\ out.d["frequency_mhz"] = f
           /\ f = JNull =>
                /\ out.d["frequency"] = JNull
                /\ out.d["frequency_mhz"] = JNull

\* C16 as amended: for every integer f other than 0 under
\* connectivity.frequency, frequency is "5GHz" if f > 4000 and "2.4GHz"
\* otherwise and frequency_mhz is f; for f = 0 frequency is null and
\* frequency_mhz is 0; for an absent or null frequency both are null.
C16_BandOfNonZero ==
    (op = "normalize_device" /\ IsDict(out) /\ IsDict(Get(arg, "connectivity"))) =>
        LET f == C16_RawFrequency(arg)
        IN /\ (f.t = "int" /\ f.i # 0) =>
                /\ out.d["frequency"] = C16_Band(f.i)
                /\ out.d["frequency_mhz"] = f
           /\ f = JInt(0) =>
                /\ out.d["frequency"] = JNull
                /\ out.d["frequency_mhz"] = JInt(0)
           /\ f = JNull =>
                /\ out.d["frequency"] = JNull
                /\ out.d["frequency_mhz"] = JNull

C16_Witness ==
    /\ op = "normalize_device"
    /\ pass = 1
    /\ IsDict(out)
    /\ IsDict(Get(arg, "connectivity"))
    /\ C16_RawFrequency(arg) = JInt(0)
    /\ out.d["frequency"] = JNull
    /\ out.d["frequency_mhz"] = JInt(0)

\* a string of the form "<n> dBm": an optional sign, one or more decimal
\* digits and the suffix " dBm"; and the integer n it denotes
C17_Number(s) == SubSeq(s, 1, Len(s) - Len(sDBm))
C17_Digits(s) ==
    IF C17_Number(s)[1] \in {"+", "-"} THEN Tail(C17_Number(s)) ELSE C17_Number(s)
C17_IsForm(s) ==
    /\ Len(s) > Len(sDBm)
    /\ SubSeq(s, Len(s) - Len(sDBm) + 1, Len(s)) = sDBm
    /\ C17_Digits(s) # <<>>
    /\ \A i \in 1..Len(C17_Digits(s)) : IsDigit(C17_Digits(s)[i])
C17_Value(s) ==
    IF C17_Number(s)[1] = "-" THEN 0 - DigitsVal(C17_Digits(s))
    ELSE DigitsVal(C17_Digits(s))

\* C17: signal_strength of a normalized device is the integer n exactly
\* when connectivity.signal is a string of the form "<n> dBm"; for every
\* other signal (a string without the suffix, a string that is no number,
\* a non-string, null, absent) it is null.
C17_SignalOnlyWithSuffix ==
    (op = "normalize_device" /\ IsDict(out)) =>
        LET connectivity == Get(arg, "connectivity")
            signal == IF IsDict(connectivity) THEN Get(connectivity, "signal")
                      ELSE JNull
        IN out.d["signal_strength"] =
              IF IsStr(signal) /\ C17_IsForm(signal.s)
              THEN JInt(C17_Value(signal.s))
              ELSE JNull

\* C18: is_gateway of a normalized eero is the boolean true when "gateway"
\* or "is_gateway" of the input is true and the boolean false otherwise,
\* and is_primary likewise of "is_primary" and "is_primary_node", for every
\* combination of true, false, null and absent aliases.
C18_RoleFlagsAreBooleanOr ==
    (op = "normalize_eero" /\ IsDict(out)) =>
        /\ out.d["is_gateway"] =
              JBool(Get(arg, "gateway") = JTrue \/ Get(arg, "is_gateway") = JTrue)
        /\ out.d["is_primary"] =
              JBool(Get(arg, "is_primary") = JTrue
                    \/ Get(arg, "is_primary_node") = JTrue)

\* the member devices of a raw profile that are mappings, in order
C19_Members(raw) ==
    LET listed == Get(raw, "devices")
        devices_raw == IF IsDict(listed) THEN Get(listed, "data") ELSE listed
    IN IF IsList(devices_raw) THEN SelectSeq(devices_raw.l, IsDict) ELSE <<>>

\* the "/"-free segment of s that follows the first "/devices/" of s with a
\* letter other than "/" behind it; <<>> when s has none
C19_AfterDevices(s) ==
    LET n == Len(sDevicesRe)
        starts == {i \in 1..Len(s) : /\ i + n <= Len(s)
                                      /\ SubSeq(s, i, i + n - 1) = sDevicesRe
                                      /\ s[i + n] # "/"}
    IN IF starts = {} THEN <<>>
       ELSE LET b == n + CHOOSE i \in starts : \A j \in starts : i <= j
                ends == {e \in b..Len(s) : \A j \in b..e : s[j] # "/"}
            IN SubSeq(s, b, CHOOSE e \in ends : \A j \in ends : j <= e)
C19_IdOf(dev) ==
    LET url == Get(dev, "url")
    IN IF IsStr(url) /\ C19_AfterDevices(url.s) # <<>>
       THEN JStr(C19_AfterDevices(url.s))
       ELSE JNull

\* C19 as claimed: the id of the devices entry of every member device is
\* extract_id_from_url of the member's own url, whatever the url's shape.
C19_Original ==
    (op = "normalize_profile" /\ IsDict(out)) =>
        LET members == C19_Members(arg)
            devices == out.d["devices"].l
        IN /\ Len(devices) = Len(members)
           /\ \A i \in 1..Len(devices) :
                 devices[i].d["id"] = extract_id_from_url(Get(members[i], "url"))

\* C19 as amended: the id of the devices entry of every member device is
\* the segment of the member's own url that follows its first "/devices/"
\* (null when the url is absent, null, empty or has no such segment); it is
\* extract_id_from_url of that url whenever that segment is the final
\* non-empty segment of the url.
C19_MemberIdFollowsDevices ==
    (op = "normalize_profile" /\ IsDict(out)) =>
        LET members == C19_Members(arg)
            devices == out.d["devices"].l
        IN /\ Len(devices) = Len(members)
           /\ \A i \in 1..Len(devices) :
                 LET url == Get(members[i], "url")
                 IN /\ devices[i].d["id"] = C19_IdOf(members[i])
                    /\ (/\ IsStr(url)
                        /\ C19_AfterDevices(url.s) # <<>>
                        /\ C19_AfterDevices(url.s) = C11_FinalSegment(url.s))
                       => devices[i].d["id"] = extract_id_from_url(url)

C19_Witness ==
    /\ op = "normalize_profile"
    /\ pass = 1
    /\ IsDict(out)
    /\ Len(out.d["devices"].l) = 2
    /\ Get(C19_Members(arg)[1], "url") = JStr(uDevMore)
    /\ out.d["devices"].l[1].d["id"] = JStr(<<"d", "1">>)
    /\ extract_id_from_url(JStr(uDevMore)) = JStr(<<"x">>)
    /\ Get(C19_Members(arg)[2], "url") = JStr(uDevDeep)
    /\ out.d["devices"].l[2].d["id"] = extract_id_from_url(JStr(uDevDeep))

\* a response that carries no status code: anything but a mapping whose
\* "meta" is a mapping with a "code" key
C20_NoCode(v) ==
    ~(IsDict(v) /\ Has(v, "meta") /\ IsDict(v.d["meta"]) /\ Has(v.d["meta"], "code"))

\* C20: check_success returns a boolean; on a response without a status
\* code it is false for null, the value itself for a boolean, true for
\* every mapping (meta a mapping without "code", no meta, empty, meta not a
\* mapping) and the truth value of every other value.
C20_NoCodeDefaults ==
    op = "check_success" =>
        /\ out \in {JTrue, JFalse}
        /\ C20_NoCode(arg) =>
              out = CASE arg = JNull -> JFalse
                      [] arg.t = "bool" -> arg
                      [] IsDict(arg) -> JTrue
                      [] OTHER -> JBool(Truthy(arg))

C20_Witness ==
    /\ op = "check_success"
    /\ arg = EmptyDict
    /\ out = JTrue

\* the keys of the canonical schema of each normalizer
C21_Schema(n) ==
    CASE n = "normalize_network" -> NetworkKeys
      [] n = "normalize_device" -> DeviceKeys
      [] n = "normalize_eero" -> EeroKeys
      [] n = "normalize_profile" -> ProfileKeys

\* C21: the top-level keys of the mapping a normalizer returns are the
\* same fixed set for every input mapping, whatever keys the input has or
\* lacks; no key of the input outside that set is a key of the output.
C21_ClosedSchema ==
    (op \in Normalizers /\ IsDict(out)) =>
        /\ DOMAIN out.d = C21_Schema(op)
        /\ DOMAIN out.d = DOMAIN Normalize(op, EmptyDict).d
        /\ \A k \in DOMAIN arg.d : k \notin C21_Schema(op) => ~Has(out, k)

C21_Witness ==
    /\ op = "normalize_network"
    /\ pass = 1
    /\ IsDict(out)
    /\ Has(arg, "mystery")
    /\ ~Has(out, "mystery")
    /\ DOMAIN out.d = DOMAIN normalize_network(EmptyDict).d

\* C30: normalize_status is idempotent: the status it returns, given to it
\* again, comes back unchanged, for null, strings of any case and mappings.
C30_StatusIdempotent ==
    (op = "normalize_status" /\ pass = 2) =>
        /\ IsStr(arg)
        /\ out = arg

C30_Witness ==
    /\ op = "normalize_status"
    /\ pass = 2
    /\ arg = JStr(sWarning)
    /\ out = JStr(sWarning)

\* the status code of a raw response envelope
C23_Code(result) == result.d["meta"].d["code"]

\* C23: /login and /verify answer 200 with success false when the client
\* returned an envelope whose meta.code is not 200 and with success true
\* when it is 200; an authentication exception gives 401 and a network
\* exception 503.
C23_UpstreamFailureReported ==
    op \in {"login", "verify"} =>
        LET result == arg.result
            resp == out.resp
        IN /\ result = AuthError => resp.status = 401
           /\ result = NetworkError => resp.status = 503
           /\ IsDict(result) =>
                /\ resp.status = 200
                /\ resp.body.d["success"] = JBool(C23_Code(result) = JInt(200))

\* C24: /logout answers 200 with success true whatever the client's logout
\* returned or raised, and the exporter session file is gone by then
\* (unless the removal itself fails).
C24_LogoutAlwaysSucceeds ==
    op = "logout" =>
        /\ out.resp.status = 200
        /\ out.resp.body.d["success"] = JTrue
        /\ arg.io_ok => ~out.exporter

\* the items a list route received, and what its loop body gives for each
C22_ListOps == {"list_devices", "list_eeros", "list_networks", "list_profiles"}
C22_Items ==
    CASE op = "list_eeros" -> extract_list(arg.result, Key("eeros")).l
      [] op = "list_networks" -> extract_list(arg.result, Key("networks")).l
      [] OTHER -> arg.result.l
C22_Result(item) ==
    CASE op = "list_eeros" -> EeroSummary(item)
      [] op = "list_networks" -> NetworkSummary(item)
      [] op = "list_profiles" -> ProfileSummary(item)
      [] OTHER -> DeviceSummary(item, arg.filters.connected_only,
                                arg.filters.profile_id, arg.filters.device_ids)

\* C22: in every list route (list_devices, list_eeros, list_networks,
\* list_profiles) an item whose processing raises is skipped alone: the
\* request answers 200 with the summaries of all other items in upstream
\* order, so that without filters returned = received - failed.
C22_PerItemIsolation ==
    (op \in C22_ListOps /\ ~IsRaised(arg.result))
        => out = Http(200, AppendKept([i \in 1..Len(C22_Items) |->
                                          C22_Result(C22_Items[i])]))

\* C27: every ProfileSummary answered by list_profiles and get_profile has
\* device_count equal to the length of its own devices list, whatever the
\* members of the upstream list are.
C27_Summaries ==
    IF op = "get_profile" THEN <<out.body>> ELSE out.body.l
C27_DeviceCountIsLength ==
    (op \in {"list_profiles", "get_profile"} /\ out.status = 200)
        => \A i \in 1..Len(C27_Summaries) :
              C27_Summaries[i].d.device_count.i = Len(C27_Summaries[i].d.devices.l)

\* C25: every handler of the network, device, eero and profile routes is
\* behind require_auth; a request to one of them calls the client (the
\* get_networks of get_network_id included) only if is_authenticated was
\* true when require_auth was resolved, and one that found it false has
\* ended with HTTP 401 without any call on the client.
C25_AuthGate ==
    /\ \A route \in DataRoutes : Needs(route, "require_auth")
    /\ \A r \in Requests :
          req[r].route \in DataRoutes =>
             /\ (req[r].called \/ req[r].lookup) => req[r].auth = "granted"
             /\ (pc[r] \in {"authorized", "ready"}) => req[r].auth = "granted"
             /\ req[r].auth = "denied" =>
                   /\ pc[r] = "done"
                   /\ req[r].status = 401
                   /\ ~req[r].called
                   /\ ~req[r].lookup
\* one request was let through and has made its call although the session
\* is gone by now, another was turned away with 401
C25_Witness ==
    \E r1, r2 \in Requests :
       /\ req[r1].route \in DataRoutes
       /\ req[r1].called
       /\ req[r1].auth = "granted"
       /\ ~is_authenticated
       /\ req[r2].route \in DataRoutes
       /\ req[r2].auth = "denied"
       /\ req[r2].status = 401

\* C28: between two shutdowns at most one EeroClient is constructed and
\* every request is handed that instance; once shutdown_client has
\* completed the global is None and the next request constructs a fresh
\* instance; shutdown_client without an instance changes nothing.
C28_OneInstance ==
    /\ made <= 1
    /\ (made = 0 /\ ~stopping) => _client = JNull
    /\ made = 1 => _client = EeroClient(shutdowns, 1)
    /\ \A r \in Requests :
          pc[r] \notin {"idle", "aenter"} => req[r].client = EeroClient(shutdowns, 1)
C28_NoInstanceNoOp ==
    (ShutdownBegins /\ _client = JNull)
        => UNCHANGED <<_client, made, entered, exited, is_authenticated, stopping,
                       pc, req>>
C28_Singleton == []C28_OneInstance /\ [][C28_NoInstanceNoOp]_vars
\* after a shutdown two requests in flight hold the one fresh instance
C28_Witness ==
    /\ shutdowns >= 1
    /\ \E r1, r2 \in Requests :
          /\ r1 # r2
          /\ pc[r1] = "resolved"
          /\ pc[r2] = "resolved"
          /\ req[r1].client = _client
          /\ req[r2].client = _client
          /\ _client = EeroClient(shutdowns, 1)

\* C29: no request is handed the shared client before its __aenter__ has
\* completed or after its __aexit__ has begun.
C29_HandedOutInitialized ==
    \A r \in Requests :
       pc[r] \notin {"idle", "aenter"} =>
          /\ req[r].ready
          /\ req[r].client \in entered

====
